---- MODULE Spec2Model ----
(***************************************************************************)
(* Verification model of pm_encoder / voyager-ast:                         *)
(*   - the zoom engine (ZoomHistory, ZoomSession, ZoomSessionStore) of     *)
(*     rust/src/core/zoom.rs,                                              *)
(*   - the PlanetariumModel and the AstProvider indexing protocol of       *)
(*     rust/voyager-ast/src/provider.rs and error.rs,                      *)
(*   - the TreeSitterAdapter of rust/src/core/syntax/adapter.rs.           *)
(* Each component has its own specification (SpecHistory, SpecSession,     *)
(* SpecStore, SpecModel, SpecIndex, SpecAdapter) over its own variables;   *)
(* the variables of the other components stay at their idle values.        *)
(***************************************************************************)
EXTENDS Integers, Sequences, FiniteSets, TLC

VARIABLES
    history,        \* ZoomHistory under test: [entries, position, max_size]
    h_call,         \* last call on history: [op, arg, ret]
    h_pre,          \* history (and undo_pending) just before the last call
    recorded,       \* entries passed to record() since construction / clear()
    undo_called,    \* an undo() call was made since construction / clear()
    undo_pending,   \* an undo() call was made since the last record()
    clock,          \* SystemTime::now() in seconds since the epoch
    session,        \* ZoomSession under test
    s_call,         \* last call on session
    s_pre,          \* session just before the last call
    s_calls,        \* number of calls made on session
    s_tally,        \* session calls so far: counts, undo done, last live add
    sessions,       \* ZoomSessionStore.sessions: name -> ZoomSession
    active_session, \* ZoomSessionStore.active_session: Option<String>
    st_call,        \* last call on the store
    st_pre,         \* store just before the last call
    st_calls,       \* number of calls made on the store
    pairs,          \* the (path, File) pairs two models are built from
    modelA,         \* PlanetariumModel built in one insertion order
    modelB,         \* PlanetariumModel built in another insertion order
    orderA,         \* keys in the order they were inserted into modelA
    orderB,         \* keys in the order they were inserted into modelB
    idx_input,      \* index_project: the enumerated file list
    idx_next,       \* index_project: index of the next file to parse
    model,          \* index_project: the PlanetariumModel being accumulated
    idx_result,     \* index_project: the value returned
    stats,          \* TreeSitterAdapter.stats (ProviderStats)
    parsers,        \* TreeSitterAdapter.parsers (parser cache): set of Language
    p_call,         \* last parse call on the adapter
    l_call,         \* last call on LanguageId / Language
    z_call,         \* last call on ZoomTarget::parse / to_command
    b_lines,          \* find_block_end: the first lines of the file
    b_pad,            \* find_block_end: number of further lines of the file
    b_call,         \* last find_block_end call
    f_tree,           \* SymbolResolver: the files under root, in walk order
    f_root_exists,    \* SymbolResolver: whether root is an existing directory
    f_call,         \* last find_all / find_symbol call
    x_language,     \* extract_symbols: the language of the parsed source
    x_root,         \* extract_symbols: the root node of the parsed tree
    x_call,         \* last extract_symbols call
    threads,        \* concurrent parse calls: thread -> [pc, nsyms, loaded]
    stats_lock,     \* the Mutex of TreeSitterAdapter.stats: Option<holder>
    returned,       \* parse calls started and returned so far, by outcome
    r_bytes,        \* read_file_content: the first bytes of the file
    r_fill,         \* read_file_content: number of further plain bytes
    r_call,         \* last read_file_content call
    d_new,          \* a history made by ZoomHistory::new()
    d_default,      \* a history made by ZoomHistory::default()
    d_call,         \* last call made on both histories
    lsp_next_id,    \* LspClient.next_id
    lsp_stdout,     \* messages the server has written and the client not read
    lsp_pending,    \* ids of the requests the server has not answered yet
    lsp_waiting,    \* id of the request send_request is waiting on, if any
    lsp_call        \* last send_request call that came back

historyVars == <<history, h_call, h_pre, recorded, undo_called, undo_pending>>
sessionVars == <<session, s_call, s_pre, s_calls, s_tally>>
storeVars   == <<sessions, active_session, st_call, st_pre, st_calls>>
modelVars   == <<pairs, modelA, modelB, orderA, orderB>>
indexVars   == <<idx_input, idx_next, model, idx_result>>
adapterVars == <<stats, parsers, p_call>>
blockVars   == <<b_lines, b_pad, b_call>>
searchVars  == <<f_tree, f_root_exists, f_call>>
extractVars == <<x_language, x_root, x_call>>
threadVars  == <<threads, stats_lock, returned>>
readVars    == <<r_bytes, r_fill, r_call>>
defaultVars == <<d_new, d_default, d_call>>
lspVars     == <<lsp_next_id, lsp_stdout, lsp_pending, lsp_waiting, lsp_call>>
lateVars    == <<readVars, defaultVars, lspVars>>
extraVars   == <<l_call, z_call, blockVars, searchVars, extractVars, threadVars,
                 lateVars>>
vars == <<historyVars, clock, sessionVars, storeVars, modelVars, indexVars, adapterVars,
         extraVars>>

----------------------------------------------------------------------------
(* Bounds of the model *)

MaxSize == 2            \* largest max_size given to ZoomHistory::with_max_size
MaxRecords == 4         \* record() calls per history between clear()s
MaxClock == 1           \* largest clock reading
MaxSessionCalls == 4    \* calls made on one session
MaxStoreCalls == 4      \* calls made on one store
MaxInserts == 3         \* insertions into one PlanetariumModel
MaxFiles == 3           \* files enumerated for one index_project run
MaxParses == 2          \* successful parse calls on one adapter
MaxSymbols == 1         \* symbols extracted from one source

----------------------------------------------------------------------------
(* Option<T> *)

None == [some |-> FALSE]
Some(x) == [some |-> TRUE, val |-> x]

----------------------------------------------------------------------------
(* zoom.rs: targets, depths, directions, history entries *)

Function(name) == [kind |-> "Function", name |-> name]
Class(name) == [kind |-> "Class", name |-> name]

ZoomDepth == {"Signature", "Implementation", "Full"}
ZoomDirection == {"Expand", "Collapse"}

ZoomHistoryEntry(t, dir, prev, ts) ==
    [target |-> t, direction |-> dir, previous_depth |-> prev, timestamp |-> ts]

\* the targets and entries the callers of the model use
Targets == {Function("a"), Class("a")}
HistoryInputs ==
    { ZoomHistoryEntry(Function("a"), "Expand", "Signature", 0),
      ZoomHistoryEntry(Function("a"), "Expand", "Signature", 1),
      ZoomHistoryEntry(Class("a"), "Collapse", "Full", 1) }

----------------------------------------------------------------------------
(* zoom.rs: ZoomHistory *)

DefaultMaxSize == 100

\* #[derive(Default)]: Vec::default(), usize::default(), usize::default()
ZoomHistoryDefault == [entries |-> <<>>, position |-> 0, max_size |-> 0]

ZoomHistoryNew == [entries |-> <<>>, position |-> 0, max_size |-> DefaultMaxSize]

WithMaxSize(m) == [entries |-> <<>>, position |-> 0, max_size |-> m]

\* Vec::truncate(n): keeps the first n elements, no effect when n >= len
Truncate(s, n) == IF n >= Len(s) THEN s ELSE SubSeq(s, 1, n)

RecordNoEvict(h, e) ==
    LET pushed == Append(Truncate(h.entries, h.position), e)
    IN  [h EXCEPT !.entries = pushed, !.position = Len(pushed)]

RecordOffByOne(h, e) ==
    LET pushed == Append(Truncate(h.entries, h.position), e)
    IN  IF Len(pushed) >= h.max_size
        THEN [h EXCEPT !.entries = Tail(pushed), !.position = Len(pushed) - 1]
        ELSE [h EXCEPT !.entries = pushed, !.position = Len(pushed)]

RecordNoTruncate(h, e) ==
    LET pushed == Append(h.entries, e)
    IN  IF Len(pushed) > h.max_size
        THEN [h EXCEPT !.entries = Tail(pushed), !.position = Len(pushed) - 1]
        ELSE [h EXCEPT !.entries = pushed, !.position = Len(pushed)]

Record(h, e) ==
    LET pushed == Append(Truncate(h.entries, h.position), e)
    IN  IF Len(pushed) > h.max_size
        THEN [h EXCEPT !.entries = Tail(pushed), !.position = Len(pushed) - 1]
        ELSE [h EXCEPT !.entries = pushed, !.position = Len(pushed)]

CanUndo(h) == h.position > 0

CanRedo(h) == h.position < Len(h.entries)

UndoPopping(h) ==
    IF CanUndo(h)
    THEN [h |-> [h EXCEPT !.position = h.position - 1,
                          !.entries = SubSeq(h.entries, 1, h.position - 1)],
          ret |-> Some(h.entries[h.position])]
    ELSE [h |-> h, ret |-> None]

\* the result is the new history and the returned Option<&ZoomHistoryEntry>
Undo(h) ==
    IF CanUndo(h)
    THEN [h |-> [h EXCEPT !.position = h.position - 1],
          ret |-> Some(h.entries[h.position])]
    ELSE [h |-> h, ret |-> None]

Redo(h) ==
    IF CanRedo(h)
    THEN [h |-> [h EXCEPT !.position = h.position + 1],
          ret |-> Some(h.entries[h.position + 1])]
    ELSE [h |-> h, ret |-> None]

Clear(h) == [h EXCEPT !.entries = <<>>, !.position = 0]

----------------------------------------------------------------------------
(* zoom.rs: ZoomSession *)

ZoomSessionNew(name, now) ==
    [name |-> name, active_zooms |-> <<>>, history |-> ZoomHistoryNew,
     created_at |-> now, modified_at |-> now]

\* active_zooms.iter().position(|(t, _)| t == target): 0 when absent
PositionOf(zooms, t) ==
    IF \E i \in 1..Len(zooms) : zooms[i][1] = t
    THEN CHOOSE i \in 1..Len(zooms) :
            /\ zooms[i][1] = t
            /\ \A j \in 1..(i - 1) : zooms[j][1] # t
    ELSE 0

\* Vec::remove(i)
RemoveAt(s, i) == SubSeq(s, 1, i - 1) \o SubSeq(s, i + 1, Len(s))

Touch(s, now) == [s EXCEPT !.modified_at = now]

AddZoomAlwaysPush(s, t, d, now) ==
    LET rec == Record(s.history, ZoomHistoryEntry(t, "Expand", "Signature", now))
    IN  Touch([s EXCEPT !.history = rec,
                        !.active_zooms = Append(s.active_zooms, <<t, d>>)], now)

AddZoomKeepDepth(s, t, d, now) ==
    LET rec == Record(s.history, ZoomHistoryEntry(t, "Expand", "Signature", now))
        pos == PositionOf(s.active_zooms, t)
    IN  IF pos # 0
        THEN Touch([s EXCEPT !.history = rec], now)
        ELSE Touch([s EXCEPT !.history = rec,
                             !.active_zooms = Append(s.active_zooms, <<t, d>>)], now)

AddZoomRecordNew(s, t, d, now) ==
    LET rec == Record(s.history, ZoomHistoryEntry(t, "Expand", "Signature", now))
        pos == PositionOf(s.active_zooms, t)
    IN  IF pos # 0
        THEN Touch([s EXCEPT !.active_zooms[pos] = <<t, d>>], now)
        ELSE Touch([s EXCEPT !.history = rec,
                             !.active_zooms = Append(s.active_zooms, <<t, d>>)], now)

AddZoom(s, t, d, now) ==
    LET rec == Record(s.history, ZoomHistoryEntry(t, "Expand", "Signature", now))
        pos == PositionOf(s.active_zooms, t)
    IN  IF pos # 0
        THEN Touch([s EXCEPT !.history = rec,
                             !.active_zooms[pos] = <<t, d>>], now)
        ELSE Touch([s EXCEPT !.history = rec,
                             !.active_zooms = Append(s.active_zooms, <<t, d>>)], now)

RemoveZoomDefaultDepth(s, t, now) ==
    LET pos == PositionOf(s.active_zooms, t)
    IN  IF pos # 0
        THEN [s |-> Touch([s EXCEPT
                        !.active_zooms = RemoveAt(s.active_zooms, pos),
                        !.history = Record(s.history,
                            ZoomHistoryEntry(t, "Collapse", "Signature", now))],
                     now),
              ret |-> TRUE]
        ELSE [s |-> s, ret |-> FALSE]

\* the result is the new session and the returned bool
RemoveZoom(s, t, now) ==
    LET pos == PositionOf(s.active_zooms, t)
    IN  IF pos # 0
        THEN [s |-> Touch([s EXCEPT
                        !.active_zooms = RemoveAt(s.active_zooms, pos),
                        !.history = Record(s.history,
                            ZoomHistoryEntry(t, "Collapse",
                                             s.active_zooms[pos][2], now))],
                     now),
              ret |-> TRUE]
        ELSE [s |-> s, ret |-> FALSE]

IsZoomed(s, t) == \E i \in 1..Len(s.active_zooms) : s.active_zooms[i][1] = t

GetDepth(s, t) ==
    IF IsZoomed(s, t)
    THEN Some(s.active_zooms[PositionOf(s.active_zooms, t)][2])
    ELSE None

ZoomCount(s) == Len(s.active_zooms)

----------------------------------------------------------------------------
(* zoom.rs: ZoomSessionStore; a store is [sessions, active_session] *)

EmptyMap == [k \in {} |-> None]

MapInsert(m, k, v) == [x \in DOMAIN m \cup {k} |-> IF x = k THEN v ELSE m[x]]

MapRemove(m, k) == [x \in DOMAIN m \ {k} |-> m[x]]

ZoomSessionStoreNew == [sessions |-> EmptyMap, active_session |-> None]

CreateSessionIfAbsent(st, name, now) ==
    [sessions |-> IF name \in DOMAIN st.sessions THEN st.sessions
                  ELSE MapInsert(st.sessions, name, ZoomSessionNew(name, now)),
     active_session |-> Some(name)]

CreateSessionKeepActive(st, name, now) ==
    [sessions |-> MapInsert(st.sessions, name, ZoomSessionNew(name, now)),
     active_session |-> IF st.active_session.some THEN st.active_session
                        ELSE Some(name)]

CreateSession(st, name, now) ==
    [sessions |-> MapInsert(st.sessions, name, ZoomSessionNew(name, now)),
     active_session |-> Some(name)]

GetSession(st, name) ==
    IF name \in DOMAIN st.sessions THEN Some(st.sessions[name]) ELSE None

Active(st) ==
    IF st.active_session.some
    THEN GetSession(st, st.active_session.val)
    ELSE None

\* the result is the new store and the returned bool
SetActive(st, name) ==
    IF name \in DOMAIN st.sessions
    THEN [st |-> [st EXCEPT !.active_session = Some(name)], ret |-> TRUE]
    ELSE [st |-> st, ret |-> FALSE]

DeleteSessionKeepPointer(st, name) ==
    IF name \in DOMAIN st.sessions
    THEN [st |-> [sessions |-> MapRemove(st.sessions, name),
                  active_session |-> st.active_session],
          ret |-> TRUE]
    ELSE [st |-> st, ret |-> FALSE]

DeleteSessionPromote(st, name) ==
    IF name \in DOMAIN st.sessions
    THEN LET rest == MapRemove(st.sessions, name)
         IN  [st |-> [sessions |-> rest,
                      active_session |->
                          IF st.active_session = Some(name)
                          THEN IF DOMAIN rest = {} THEN None
                               ELSE Some(CHOOSE n \in DOMAIN rest : TRUE)
                          ELSE st.active_session],
              ret |-> TRUE]
    ELSE [st |-> st, ret |-> FALSE]

DeleteSession(st, name) ==
    IF name \in DOMAIN st.sessions
    THEN [st |-> [sessions |-> MapRemove(st.sessions, name),
                  active_session |-> IF st.active_session = Some(name)
                                     THEN None ELSE st.active_session],
          ret |-> TRUE]
    ELSE [st |-> st, ret |-> FALSE]

SessionCount(st) == Cardinality(DOMAIN st.sessions)

----------------------------------------------------------------------------
(* ir.rs / provider.rs: File, PlanetariumModel.                            *)
(* A path is a String, modelled as its sequence of character codes; the    *)
(* BTreeMap orders its keys by the lexicographic order of String.          *)

Paths == {<<1>>, <<1, 2>>, <<2>>}

RECURSIVE StrLess(_, _)
StrLess(a, b) ==
    IF a = <<>> THEN b # <<>>
    ELSE IF b = <<>> THEN FALSE
    ELSE IF Head(a) # Head(b) THEN Head(a) < Head(b)
    ELSE StrLess(Tail(a), Tail(b))

FileNew(path, language) ==
    [path |-> path, language |-> language, declarations |-> <<>>,
     imports |-> <<>>, comments |-> <<>>, unknown_regions |-> <<>>,
     span |-> [start |-> 0, end |-> 0, start_line |-> 0, end_line |-> 0,
               start_column |-> 0, end_column |-> 0],
     metadata |-> <<>>]

IndexStatsDefault ==
    [files_processed |-> 0, files_skipped |-> 0, declarations_found |-> 0,
     imports_found |-> 0, unknown_regions |-> 0, parse_time_ms |-> 0,
     by_language |-> <<>>]

IndexError(path, message, recoverable) ==
    [path |-> path, message |-> message, recoverable |-> recoverable]

\* files is the BTreeMap in iteration order: a sequence of <<key, File>>
PlanetariumModelNew(root) ==
    [root |-> root, files |-> <<>>, stats |-> IndexStatsDefault, errors |-> <<>>]

Keys(files) == {files[i][1] : i \in 1..Len(files)}

BTreeInsertAppend(files, k, v) ==
    IF k \in Keys(files)
    THEN [i \in 1..Len(files) |-> IF files[i][1] = k THEN <<k, v>> ELSE files[i]]
    ELSE Append(files, <<k, v>>)

\* BTreeMap::insert: replaces the value of an existing key, otherwise places
\* the new key after every smaller key and before every larger one
BTreeInsert(files, k, v) ==
    IF k \in Keys(files)
    THEN [i \in 1..Len(files) |-> IF files[i][1] = k THEN <<k, v>> ELSE files[i]]
    ELSE LET n == Cardinality({i \in 1..Len(files) : StrLess(files[i][1], k)})
         IN  SubSeq(files, 1, n) \o <<<<k, v>>>> \o SubSeq(files, n + 1, Len(files))

\* serde's derived Serialize: the fields in declaration order, the map
\* entries in iteration order, errors skipped when empty
Serialize(m) ==
    <<"root", m.root, "files", m.files, "stats", m.stats>>
        \o (IF m.errors = <<>> THEN <<>> ELSE <<"errors", m.errors>>)

----------------------------------------------------------------------------
(* provider.rs: AstProvider::index_project.  provider.rs declares the      *)
(* method; its behaviour is modelled from section 4.3 of the design        *)
(* specification.                                                          *)

\* one enumerated file: parsed, or failed with a fatal parse error
IndexOneAbort(m, f, recoverable) ==
    IF f.outcome = "ok"
    THEN [model |-> [m EXCEPT
                        !.files = BTreeInsert(m.files, f.path,
                                              FileNew(f.path, f.language)),
                        !.stats.files_processed = m.stats.files_processed + 1],
          aborted |-> FALSE]
    ELSE [model |-> m, aborted |-> TRUE]

IndexOne(m, f, recoverable) ==
    IF f.outcome = "ok"
    THEN [model |-> [m EXCEPT
                        !.files = BTreeInsert(m.files, f.path,
                                              FileNew(f.path, f.language)),
                        !.stats.files_processed = m.stats.files_processed + 1],
          aborted |-> FALSE]
    ELSE [model |-> [m EXCEPT
                        !.errors = Append(m.errors,
                            IndexError(f.path, "parse error", recoverable))],
          aborted |-> FALSE]

----------------------------------------------------------------------------
(* syntax/mod.rs, syntax/adapter.rs: Language, TreeSitterAdapter *)

Language ==
    {"Rust", "C", "Cpp", "Go", "Java", "Kotlin", "Scala", "CSharp", "Python",
     "Ruby", "Php", "Lua", "JavaScript", "TypeScript", "Tsx", "Html", "Css",
     "Swift", "Json", "Yaml", "Toml", "Sql", "Bash", "Hcl", "Dockerfile",
     "Markdown"}

SupportedLanguages ==
    <<"Rust", "Python", "JavaScript", "TypeScript", "Tsx", "Go", "Java", "C",
      "Cpp", "CSharp", "Ruby", "Html", "Css", "Json", "Toml", "Bash",
      "Markdown">>

\* SyntaxProvider::supports: supported_languages().contains(&language)
Supports(l) == \E i \in 1..Len(SupportedLanguages) : SupportedLanguages[i] = l

SyntaxOk(v) == [ok |-> TRUE, val |-> v]
SyntaxErr(e) == [ok |-> FALSE, err |-> e]

UnsupportedLanguage(msg) == [variant |-> "UnsupportedLanguage", msg |-> msg]
InitializationError(msg) == [variant |-> "InitializationError", msg |-> msg]
SyntaxParseError(line, column, message) ==
    [variant |-> "ParseError", line |-> line, column |-> column,
     message |-> message]

GetTreeSitterLanguage(l) ==
    IF l \in {"Rust", "Python", "JavaScript", "TypeScript", "Tsx", "Go",
              "Java", "C", "Cpp", "CSharp", "Ruby", "Html", "Css", "Json",
              "Bash"}
    THEN SyntaxOk(l)
    ELSE SyntaxErr(UnsupportedLanguage(<<l, "grammar not yet available (Phase 1B)">>))

\* set_ok: whether Parser::set_language accepts the grammar
GetParser(l, set_ok) ==
    IF ~GetTreeSitterLanguage(l).ok THEN GetTreeSitterLanguage(l)
    ELSE IF ~set_ok THEN SyntaxErr(InitializationError("set_language"))
    ELSE SyntaxOk([language |-> l])

ProviderStatsDefault ==
    [files_parsed |-> 0, symbols_extracted |-> 0, total_parse_time_ms |-> 0,
     cache_hit_rate |-> 0, by_language |-> <<>>]

\* TreeSitterAdapter::parse on adapter state st = [stats, parsers];
\* tree: whether the grammar parser produced a tree; nsyms: the number of
\* symbols extract_symbols finds in it
AdapterParse(st, l, set_ok, tree, nsyms) ==
    IF ~GetParser(l, set_ok).ok
    THEN [st |-> st, ret |-> GetParser(l, set_ok)]
    ELSE IF ~tree
    THEN [st |-> st,
          ret |-> SyntaxErr(SyntaxParseError(0, 0, "Failed to parse source"))]
    ELSE [st |-> [st EXCEPT
                    !.stats.files_parsed = st.stats.files_parsed + 1,
                    !.stats.symbols_extracted = st.stats.symbols_extracted + nsyms],
          ret |-> SyntaxOk([symbols |-> nsyms])]

----------------------------------------------------------------------------
(* error.rs: AstError::has_partial / take_partial, applied to an error value *)

HasPartial(e) ==
    /\ e.variant = "ParseError"
    /\ "partial" \in DOMAIN e
    /\ e.partial.some

TakePartial(e) == IF HasPartial(e) THEN Some(e.partial.val) ELSE None

ParseErrorWithPartial(message, file) ==
    [variant |-> "ParseError", message |-> message, partial |-> Some(file)]

AstParseError(message) ==
    [variant |-> "ParseError", message |-> message, partial |-> None]

----------------------------------------------------------------------------
(* ir.rs, syntax/mod.rs: extension tables of LanguageId and Language *)

LanguageId ==
    {"Rust", "Python", "TypeScript", "JavaScript", "Tsx", "Jsx", "Abl", "C",
     "Cpp", "Java", "Go", "Ruby", "Php", "CSharp", "Swift", "Kotlin", "Scala",
     "Html", "Css", "Json", "Yaml", "Toml", "Markdown", "Bash", "Sql",
     "Unknown"}

\* The extensions given to from_extension: every string of the two tables,
\* some unknown ones, the empty string and some with upper-case letters
ExtInputs ==
    {"rs", "py", "pyw", "pyi", "ts", "mts", "cts", "tsx", "js", "mjs", "cjs",
     "jsx", "p", "i", "w", "cls", "c", "h", "cpp", "cc", "cxx", "hpp", "hxx",
     "hh", "java", "go", "rb", "rake", "gemspec", "php", "phtml", "cs",
     "swift", "kt", "kts", "scala", "sc", "html", "htm", "css", "scss",
     "sass", "json", "jsonc", "yaml", "yml", "toml", "md", "markdown", "sh",
     "bash", "zsh", "ksh", "sql", "lua", "tf", "hcl", "dockerfile",
     "", "unknown", "txt", "RS", "Py", "H", "TF", "Dockerfile", "TXT"}

\* str::to_lowercase on the strings of ExtInputs
ToLowercase(ext) ==
    CASE ext = "RS" -> "rs"
      [] ext = "Py" -> "py"
      [] ext = "H" -> "h"
      [] ext = "TF" -> "tf"
      [] ext = "Dockerfile" -> "dockerfile"
      [] ext = "TXT" -> "txt"
      [] OTHER -> ext

LanguageId_from_extension(ext) ==
    LET e == ToLowercase(ext) IN
    CASE e = "rs" -> "Rust"
      [] e \in {"py", "pyw", "pyi"} -> "Python"
      [] e \in {"ts", "mts", "cts"} -> "TypeScript"
      [] e = "tsx" -> "Tsx"
      [] e \in {"js", "mjs", "cjs"} -> "JavaScript"
      [] e = "jsx" -> "Jsx"
      [] e \in {"p", "i", "w", "cls"} -> "Abl"
      [] e \in {"c", "h"} -> "C"
      [] e \in {"cpp", "cc", "cxx", "hpp", "hxx", "hh"} -> "Cpp"
      [] e = "java" -> "Java"
      [] e = "go" -> "Go"
      [] e \in {"rb", "rake", "gemspec"} -> "Ruby"
      [] e \in {"php", "phtml"} -> "Php"
      [] e = "cs" -> "CSharp"
      [] e = "swift" -> "Swift"
      [] e \in {"kt", "kts"} -> "Kotlin"
      [] e \in {"scala", "sc"} -> "Scala"
      [] e \in {"html", "htm"} -> "Html"
      [] e \in {"css", "scss", "sass"} -> "Css"
      [] e \in {"json", "jsonc"} -> "Json"
      [] e \in {"yaml", "yml"} -> "Yaml"
      [] e = "toml" -> "Toml"
      [] e \in {"md", "markdown"} -> "Markdown"
      [] e \in {"sh", "bash", "zsh", "ksh"} -> "Bash"
      [] e = "sql" -> "Sql"
      [] OTHER -> "Unknown"

LanguageId_extension_AblName(l) ==
    CASE l = "Abl" -> "abl"
      [] l = "Rust" -> "rs"
      [] l = "Python" -> "py"
      [] OTHER -> ""

LanguageId_extension(l) ==
    CASE l = "Rust" -> "rs"
      [] l = "Python" -> "py"
      [] l = "TypeScript" -> "ts"
      [] l = "Tsx" -> "tsx"
      [] l = "JavaScript" -> "js"
      [] l = "Jsx" -> "jsx"
      [] l = "Abl" -> "p"
      [] l = "C" -> "c"
      [] l = "Cpp" -> "cpp"
      [] l = "Java" -> "java"
      [] l = "Go" -> "go"
      [] l = "Ruby" -> "rb"
      [] l = "Php" -> "php"
      [] l = "CSharp" -> "cs"
      [] l = "Swift" -> "swift"
      [] l = "Kotlin" -> "kt"
      [] l = "Scala" -> "scala"
      [] l = "Html" -> "html"
      [] l = "Css" -> "css"
      [] l = "Json" -> "json"
      [] l = "Yaml" -> "yaml"
      [] l = "Toml" -> "toml"
      [] l = "Markdown" -> "md"
      [] l = "Bash" -> "sh"
      [] l = "Sql" -> "sql"
      [] l = "Unknown" -> ""

Language_from_extension(ext) ==
    LET e == ToLowercase(ext) IN
    CASE e = "rs" -> Some("Rust")
      [] e \in {"c", "h"} -> Some("C")
      [] e \in {"cpp", "cc", "cxx", "hpp", "hxx"} -> Some("Cpp")
      [] e = "go" -> Some("Go")
      [] e = "java" -> Some("Java")
      [] e \in {"kt", "kts"} -> Some("Kotlin")
      [] e \in {"scala", "sc"} -> Some("Scala")
      [] e = "cs" -> Some("CSharp")
      [] e \in {"py", "pyw", "pyi"} -> Some("Python")
      [] e \in {"rb", "rake", "gemspec"} -> Some("Ruby")
      [] e \in {"php", "phtml"} -> Some("Php")
      [] e = "lua" -> Some("Lua")
      [] e \in {"js", "mjs", "cjs"} -> Some("JavaScript")
      [] e \in {"ts", "mts", "cts"} -> Some("TypeScript")
      [] e = "tsx" -> Some("Tsx")
      [] e \in {"html", "htm"} -> Some("Html")
      [] e \in {"css", "scss", "sass"} -> Some("Css")
      [] e = "swift" -> Some("Swift")
      [] e \in {"json", "jsonc"} -> Some("Json")
      [] e \in {"yaml", "yml"} -> Some("Yaml")
      [] e = "toml" -> Some("Toml")
      [] e = "sql" -> Some("Sql")
      [] e \in {"sh", "bash", "zsh"} -> Some("Bash")
      [] e \in {"tf", "hcl"} -> Some("Hcl")
      [] e = "dockerfile" -> Some("Dockerfile")
      [] e \in {"md", "markdown"} -> Some("Markdown")
      [] OTHER -> None

Language_extension(l) ==
    CASE l = "Rust" -> "rs"
      [] l = "C" -> "c"
      [] l = "Cpp" -> "cpp"
      [] l = "Go" -> "go"
      [] l = "Java" -> "java"
      [] l = "Kotlin" -> "kt"
      [] l = "Scala" -> "scala"
      [] l = "CSharp" -> "cs"
      [] l = "Python" -> "py"
      [] l = "Ruby" -> "rb"
      [] l = "Php" -> "php"
      [] l = "Lua" -> "lua"
      [] l = "JavaScript" -> "js"
      [] l = "TypeScript" -> "ts"
      [] l = "Tsx" -> "tsx"
      [] l = "Html" -> "html"
      [] l = "Css" -> "css"
      [] l = "Swift" -> "swift"
      [] l = "Json" -> "json"
      [] l = "Yaml" -> "yaml"
      [] l = "Toml" -> "toml"
      [] l = "Sql" -> "sql"
      [] l = "Bash" -> "sh"
      [] l = "Hcl" -> "tf"
      [] l = "Dockerfile" -> "dockerfile"
      [] l = "Markdown" -> "md"

----------------------------------------------------------------------------
(* zoom.rs: ZoomTarget::parse and ZoomTarget::to_command.  A string is a    *)
(* sequence of one-character strings.                                      *)

MaxLine == 10           \* largest line number / budget of a ZoomTarget

Module(name) == [kind |-> "Module", name |-> name]
FileTarget(path, start_line, end_line) ==
    [kind |-> "File", path |-> path, start_line |-> start_line,
     end_line |-> end_line]

ZoomOk(v) == [ok |-> TRUE, val |-> v]
InvalidZoomTarget(s) ==
    [ok |-> FALSE, err |-> [variant |-> "InvalidZoomTarget", target |-> s]]

Digits == <<"0", "1", "2", "3", "4", "5", "6", "7", "8", "9">>
DigitValue(c) == CHOOSE d \in 0..9 : Digits[d + 1] = c
IsDigit(c) == \E d \in 0..9 : Digits[d + 1] = c

\* format!("{}", n) for a usize
RECURSIVE FormatUsize(_)
FormatUsize(n) ==
    IF n < 10 THEN <<Digits[n + 1]>>
    ELSE FormatUsize(n \div 10) \o <<Digits[(n % 10) + 1]>>

RECURSIVE DigitsValue(_)
DigitsValue(s) ==
    IF s = <<>> THEN 0
    ELSE 10 * DigitsValue(SubSeq(s, 1, Len(s) - 1)) + DigitValue(s[Len(s)])

\* str::parse::<usize>().ok(): decimal digits after an optional '+'
ParseUsize(s) ==
    LET body == IF s # <<>> /\ s[1] = "+" THEN Tail(s) ELSE s IN
    IF body # <<>> /\ \A i \in 1..Len(body) : IsDigit(body[i])
    THEN Some(DigitsValue(body))
    ELSE None

\* str::find / str::rfind of one character: Option<position>, 1-based
Find(s, c) ==
    IF \E i \in 1..Len(s) : s[i] = c
    THEN Some(CHOOSE i \in 1..Len(s) :
                 s[i] = c /\ \A j \in 1..(i - 1) : s[j] # c)
    ELSE None
RFind(s, c) ==
    IF \E i \in 1..Len(s) : s[i] = c
    THEN Some(CHOOSE i \in 1..Len(s) :
                 s[i] = c /\ \A j \in (i + 1)..Len(s) : s[j] # c)
    ELSE None

ParseFile(value) ==
    LET colon == RFind(value, ":") IN
    IF colon.some
    THEN LET path == SubSeq(value, 1, colon.val - 1)
             range == SubSeq(value, colon.val + 1, Len(value))
             dash == Find(range, "-")
         IN IF dash.some
            THEN FileTarget(path,
                            ParseUsize(SubSeq(range, 1, dash.val - 1)),
                            ParseUsize(SubSeq(range, dash.val + 1, Len(range))))
            ELSE FileTarget(path, ParseUsize(range), None)
    ELSE FileTarget(value, None, None)

\* ZoomTarget::parse
ZoomTargetParse(s) ==
    LET eq == Find(s, "=") IN
    IF ~eq.some THEN InvalidZoomTarget(s)
    ELSE LET kind == SubSeq(s, 1, eq.val - 1)
             value == SubSeq(s, eq.val + 1, Len(s))
         IN CASE kind \in {<<"f", "u", "n", "c", "t", "i", "o", "n">>, <<"f", "n">>} -> ZoomOk(Function(value))
              [] kind \in {<<"c", "l", "a", "s", "s">>, <<"s", "t", "r", "u", "c", "t">>} -> ZoomOk(Class(value))
              [] kind \in {<<"m", "o", "d", "u", "l", "e">>, <<"m", "o", "d">>} -> ZoomOk(Module(value))
              [] kind = <<"f", "i", "l", "e">> -> ZoomOk(ParseFile(value))
              [] OTHER -> InvalidZoomTarget(s)

\* the target_str of to_command
TargetStr(t) ==
    CASE t.kind = "Function" -> <<"f", "u", "n", "c", "t", "i", "o", "n">> \o <<"=">> \o t.name
      [] t.kind = "Class" -> <<"c", "l", "a", "s", "s">> \o <<"=">> \o t.name
      [] t.kind = "Module" -> <<"m", "o", "d", "u", "l", "e">> \o <<"=">> \o t.name
      [] t.kind = "File" ->
            IF t.start_line.some /\ t.end_line.some
            THEN <<"f", "i", "l", "e">> \o <<"=">> \o t.path \o <<":">>
                 \o FormatUsize(t.start_line.val) \o <<"-">>
                 \o FormatUsize(t.end_line.val)
            ELSE IF t.start_line.some
            THEN <<"f", "i", "l", "e">> \o <<"=">> \o t.path \o <<":">>
                 \o FormatUsize(t.start_line.val)
            ELSE <<"f", "i", "l", "e">> \o <<"=">> \o t.path

CommandPrefix == <<"p", "m", "_", "e", "n", "c", "o", "d", "e", "r", " ", "-", "-", "z", "o", "o", "m", " ">>
BudgetFlag == <<" ", "-", "-", "b", "u", "d", "g", "e", "t", " ">>

\* ZoomTarget::to_command
ToCommand(t, budget) ==
    IF budget.some
    THEN CommandPrefix \o TargetStr(t) \o BudgetFlag \o FormatUsize(budget.val)
    ELSE CommandPrefix \o TargetStr(t)

\* the <type>=<value> part of the command built with this budget
ZoomArgument(command, budget) ==
    SubSeq(command, Len(CommandPrefix) + 1,
           Len(command) - (IF budget.some
                           THEN Len(BudgetFlag) + Len(FormatUsize(budget.val))
                           ELSE 0))

----------------------------------------------------------------------------
(* search.rs: SymbolResolver.  A line is [indent, text, caps]: the number  *)
(* of leading whitespace characters, the characters after them, and the   *)
(* (pattern, captured name) pairs of the regexes that match the line.      *)

BlockEstimate == 50     \* lines estimated for an unmatched brace block
DefaultEstimate == 30   \* lines estimated for the other languages

BraceExts == {"rs", "js", "jsx", "ts", "tsx", "mjs", "go", "c", "cpp", "java"}
IndentExts == {"py", "pyw"}

\* the first line from i on that holds a brace (Len(lines) + 1 if none):
\* the lines before it leave brace_count and found_open as they are
NextBraceLine(lines, i) ==
    LET HasBrace(k) == \E j \in 1..Len(lines[k].text) :
                          lines[k].text[j] \in {"{", "}"}
    IN IF \E k \in i..Len(lines) : HasBrace(k)
       THEN CHOOSE k \in i..Len(lines) :
               HasBrace(k) /\ \A m \in i..(k - 1) : ~HasBrace(m)
       ELSE Len(lines) + 1

RECURSIVE BraceScanFirstClose(_, _, _, _, _)
BraceScanFirstClose(lines, i, j, brace_count, found_open) ==
    IF i > Len(lines) THEN None
    ELSE IF j > Len(lines[i].text)
    THEN BraceScanFirstClose(lines, NextBraceLine(lines, i + 1), 1,
                             brace_count, found_open)
    ELSE IF lines[i].text[j] = "{"
    THEN BraceScanFirstClose(lines, i, j + 1, brace_count + 1, TRUE)
    ELSE IF lines[i].text[j] = "}"
    THEN IF found_open THEN Some(i)
         ELSE BraceScanFirstClose(lines, i, j + 1, brace_count - 1, found_open)
    ELSE BraceScanFirstClose(lines, i, j + 1, brace_count, found_open)

\* the brace loop of find_block_end from 1-based line i, character j
RECURSIVE BraceScan(_, _, _, _, _)
BraceScan(lines, i, j, brace_count, found_open) ==
    IF i > Len(lines) THEN None
    ELSE IF j > Len(lines[i].text)
    THEN BraceScan(lines, NextBraceLine(lines, i + 1), 1, brace_count,
                   found_open)
    ELSE IF lines[i].text[j] = "{"
    THEN BraceScan(lines, i, j + 1, brace_count + 1, TRUE)
    ELSE IF lines[i].text[j] = "}"
    THEN IF found_open /\ brace_count - 1 = 0 THEN Some(i)
         ELSE BraceScan(lines, i, j + 1, brace_count - 1, found_open)
    ELSE BraceScan(lines, i, j + 1, brace_count, found_open)

IndentScanDecorators(lines, i, start_indent) ==
    LET Ends(k) == /\ lines[k].text # <<>>
                   /\ lines[k].indent <= start_indent
                   /\ lines[k].text[1] # "#"
    IN IF \E k \in i..Len(lines) : Ends(k)
       THEN (CHOOSE k \in i..Len(lines) :
                Ends(k) /\ \A m \in i..(k - 1) : ~Ends(m)) - 1
       ELSE Len(lines)

\* the indentation loop of find_block_end from 1-based line i: the first
\* line k that makes it return gives k - 1, the end of the loop Len(lines)
IndentScan(lines, i, start_indent) ==
    LET Ends(k) == /\ lines[k].text # <<>>
                   /\ lines[k].indent <= start_indent
                   /\ lines[k].text[1] # "#"
                   /\ lines[k].text[1] # "@"
    IN IF \E k \in i..Len(lines) : Ends(k)
       THEN (CHOOSE k \in i..Len(lines) :
                Ends(k) /\ \A m \in i..(k - 1) : ~Ends(m)) - 1
       ELSE Len(lines)

Min(a, b) == IF a <= b THEN a ELSE b

FindBlockEndNoClamp(lines, start_idx, ext) ==
    IF start_idx >= Len(lines) THEN start_idx + 1
    ELSE IF ext \in BraceExts
    THEN LET end == BraceScan(lines, start_idx + 1, 1, 0, FALSE) IN
         IF end.some THEN end.val ELSE start_idx + BlockEstimate
    ELSE IF ext \in IndentExts
    THEN IndentScan(lines, start_idx + 2, lines[start_idx + 1].indent)
    ELSE start_idx + DefaultEstimate

\* SymbolResolver::find_block_end; start_idx is 0-based, the result 1-based
FindBlockEnd(lines, start_idx, ext) ==
    IF start_idx >= Len(lines) THEN start_idx + 1
    ELSE IF ext \in BraceExts
    THEN LET end == BraceScan(lines, start_idx + 1, 1, 0, FALSE) IN
         IF end.some THEN end.val
         ELSE Min(start_idx + BlockEstimate, Len(lines))
    ELSE IF ext \in IndentExts
    THEN IndentScan(lines, start_idx + 2, lines[start_idx + 1].indent)
    ELSE Min(start_idx + DefaultEstimate, Len(lines))

SymbolType == {"Function", "Class", "Struct", "Trait", "Enum", "Module"}

\* the regexes match_symbol tries for (ext, symbol_type), in order
Patterns(ext, symbol_type) ==
    CASE ext = "rs" /\ symbol_type = "Function" -> <<"RUST_FN">>
      [] ext = "rs" /\ symbol_type = "Struct" -> <<"RUST_STRUCT">>
      [] ext = "rs" /\ symbol_type = "Enum" -> <<"RUST_ENUM">>
      [] ext = "rs" /\ symbol_type = "Trait" -> <<"RUST_TRAIT">>
      [] ext = "rs" /\ symbol_type = "Class" -> <<"RUST_STRUCT", "RUST_ENUM">>
      [] ext \in {"py", "pyw"} /\ symbol_type = "Function" -> <<"PYTHON_DEF">>
      [] ext \in {"py", "pyw"} /\ symbol_type = "Class" -> <<"PYTHON_CLASS">>
      [] ext \in {"js", "jsx", "ts", "tsx", "mjs"} /\ symbol_type = "Function" ->
            <<"JS_FUNCTION", "JS_CONST_FN", "JS_METHOD">>
      [] ext \in {"js", "jsx", "ts", "tsx", "mjs"} /\ symbol_type = "Class" ->
            <<"JS_CLASS">>
      [] ext = "go" /\ symbol_type = "Function" -> <<"GO_FUNC">>
      [] ext = "go" /\ symbol_type \in {"Class", "Struct"} -> <<"GO_TYPE">>
      [] OTHER -> <<>>

SymbolLocation(path, start_line, end_line, name, symbol_type, signature) ==
    [path |-> path, start_line |-> start_line, end_line |-> end_line,
     name |-> name, symbol_type |-> symbol_type, signature |-> signature]

MatchSymbolZeroBased(path, line, line_num, name, symbol_type, ext, all_lines) ==
    LET patterns == Patterns(ext, symbol_type) IN
    IF \E k \in 1..Len(patterns) :
          [pattern |-> patterns[k], name |-> name] \in line.caps
    THEN Some(SymbolLocation(path, line_num,
                             FindBlockEnd(all_lines, line_num, ext),
                             name, symbol_type, line.text))
    ELSE None

\* SymbolResolver::match_symbol: Option<SymbolLocation>
MatchSymbol(path, line, line_num, name, symbol_type, ext, all_lines) ==
    LET patterns == Patterns(ext, symbol_type) IN
    IF \E k \in 1..Len(patterns) :
          [pattern |-> patterns[k], name |-> name] \in line.caps
    THEN Some(SymbolLocation(path, line_num,
                             FindBlockEnd(all_lines, line_num - 1, ext),
                             name, symbol_type, line.text))
    ELSE None

\* the results of find_in_file for the lines from i on
RECURSIVE MatchesFrom(_, _, _, _, _)
MatchesFrom(file, i, name, symbol_type, ext) ==
    IF i > Len(file.lines) THEN <<>>
    ELSE LET loc == MatchSymbol(file.path, file.lines[i], i, name,
                                symbol_type, ext, file.lines)
         IN (IF loc.some THEN <<loc.val>> ELSE <<>>)
            \o MatchesFrom(file, i + 1, name, symbol_type, ext)

\* SymbolResolver::find_in_file: Option<Vec<SymbolLocation>>; file.ext is
\* Path::new(path).extension()
FindInFile(file, name, symbol_type) ==
    IF ~file.ext.some THEN None
    ELSE LET results == MatchesFrom(file, 1, name, symbol_type, file.ext.val)
         IN IF results = <<>> THEN None ELSE Some(results)

\* SymbolResolver::find_all; walked is the Result of DefaultWalker::walk
RECURSIVE FindAllFrom(_, _, _, _)
FindAllFrom(entries, k, name, symbol_type) ==
    IF k > Len(entries) THEN <<>>
    ELSE LET locations == FindInFile(entries[k], name, symbol_type) IN
         (IF locations.some THEN locations.val ELSE <<>>)
         \o FindAllFrom(entries, k + 1, name, symbol_type)

FindAll(walked, name, symbol_type) ==
    IF ~walked.ok THEN <<>>
    ELSE FindAllFrom(walked.val, 1, name, symbol_type)

SearchOk(loc) == [ok |-> TRUE, val |-> loc]
WalkFailed == [ok |-> FALSE, err |-> <<"Failed to walk directory">>]
NotFound(symbol_type, name) ==
    [ok |-> FALSE,
     err |-> <<symbol_type, name, "not found in scanned files">>]

RECURSIVE FindSymbolFromLast(_, _, _, _)
FindSymbolFromLast(entries, k, name, symbol_type) ==
    IF k > Len(entries) THEN NotFound(symbol_type, name)
    ELSE LET locations == FindInFile(entries[k], name, symbol_type) IN
         IF locations.some
         THEN SearchOk(locations.val[Len(locations.val)])
         ELSE FindSymbolFromLast(entries, k + 1, name, symbol_type)

\* the loop of find_symbol over the walked entries from k on
RECURSIVE FindSymbolFrom(_, _, _, _)
FindSymbolFrom(entries, k, name, symbol_type) ==
    IF k > Len(entries) THEN NotFound(symbol_type, name)
    ELSE LET locations == FindInFile(entries[k], name, symbol_type) IN
         IF locations.some
         THEN SearchOk(locations.val[1])
         ELSE FindSymbolFrom(entries, k + 1, name, symbol_type)

\* SymbolResolver::find_symbol
FindSymbol(walked, name, symbol_type) ==
    IF ~walked.ok THEN WalkFailed
    ELSE FindSymbolFrom(walked.val, 1, name, symbol_type)

----------------------------------------------------------------------------
(* adapter.rs: the shallow symbol extraction.  A syntax node is            *)
(* [kind, name, members]: its kind, its "name" (for an impl its "type")     *)
(* field, and the children of its body / declaration list (for an export   *)
(* statement its own children).                                            *)

Node(kind, name, members) ==
    [kind |-> kind, name |-> name, members |-> members]
Symbol(name, kind, parent) == [name |-> name, kind |-> kind, parent |-> parent]

RECURSIVE ConcatAll(_)
ConcatAll(ss) == IF ss = <<>> THEN <<>> ELSE Head(ss) \o ConcatAll(Tail(ss))

\* a symbol of this kind if node n has a name
Named(n, kind, parent) ==
    IF n.name.some THEN <<Symbol(n.name.val, kind, parent)>> ELSE <<>>

ExtractRustImplMethods(impl_node) ==
    ConcatAll([i \in 1..Len(impl_node.members) |->
        IF impl_node.members[i].kind = "function_item"
        THEN Named(impl_node.members[i], "Method", impl_node.name)
        ELSE <<>>])

ExtractRustSymbols(node) ==
    ConcatAll([i \in 1..Len(node.members) |->
        LET child == node.members[i] IN
        CASE child.kind = "function_item" -> Named(child, "Function", None)
          [] child.kind = "struct_item" -> Named(child, "Struct", None)
          [] child.kind = "impl_item" -> ExtractRustImplMethods(child)
          [] child.kind = "mod_item" -> Named(child, "Module", None)
          [] OTHER -> <<>>])

ExtractPythonClassMethods(class_node, class_name) ==
    ConcatAll([i \in 1..Len(class_node.members) |->
        IF class_node.members[i].kind = "function_definition"
        THEN Named(class_node.members[i], "Method", Some(class_name))
        ELSE <<>>])

ExtractPythonSymbols(node) ==
    ConcatAll([i \in 1..Len(node.members) |->
        LET child == node.members[i] IN
        CASE child.kind = "function_definition" ->
                Named(child, "Function", None)
          [] child.kind = "class_definition" ->
                IF child.name.some
                THEN Named(child, "Class", None)
                     \o ExtractPythonClassMethods(child, child.name.val)
                ELSE <<>>
          [] OTHER -> <<>>])

ExtractJsClassMembers(class_node, class_name) ==
    ConcatAll([i \in 1..Len(class_node.members) |->
        LET child == class_node.members[i] IN
        CASE child.kind = "method_definition" ->
                Named(child, "Method", Some(class_name))
          [] child.kind \in {"public_field_definition", "field_definition"} ->
                Named(child, "Field", Some(class_name))
          [] OTHER -> <<>>])

ExtractJsExport(node) ==
    ConcatAll([i \in 1..Len(node.members) |->
        LET child == node.members[i] IN
        CASE child.kind = "function_declaration" ->
                Named(child, "Function", None)
          [] child.kind = "class_declaration" -> Named(child, "Class", None)
          [] OTHER -> <<>>])

ExtractJsSymbols(node) ==
    ConcatAll([i \in 1..Len(node.members) |->
        LET child == node.members[i] IN
        CASE child.kind = "function_declaration" ->
                Named(child, "Function", None)
          [] child.kind = "class_declaration" ->
                IF child.name.some
                THEN Named(child, "Class", None)
                     \o ExtractJsClassMembers(child, child.name.val)
                ELSE <<>>
          [] child.kind = "export_statement" -> ExtractJsExport(child)
          [] OTHER -> <<>>])

\* TreeSitterAdapter::extract_symbols, for the three language families
ExtractSymbols(root, language) ==
    CASE language = "Rust" -> ExtractRustSymbols(root)
      [] language = "Python" -> ExtractPythonSymbols(root)
      [] language \in {"JavaScript", "TypeScript", "Tsx"} ->
            ExtractJsSymbols(root)

----------------------------------------------------------------------------
(* Idle values of the components a specification does not exercise *)

NoCall == [op |-> "none"]

HistoryIdle ==
    /\ history = ZoomHistoryNew
    /\ h_call = NoCall
    /\ h_pre = [history |-> ZoomHistoryNew, undo_pending |-> FALSE]
    /\ recorded = <<>>
    /\ undo_called = FALSE
    /\ undo_pending = FALSE

OnlyHistory ==
    UNCHANGED <<clock, sessionVars, storeVars, modelVars, indexVars, adapterVars,
                extraVars>>
OnlySession ==
    UNCHANGED <<clock, historyVars, storeVars, modelVars, indexVars, adapterVars,
                extraVars>>
OnlyStore ==
    UNCHANGED <<clock, historyVars, sessionVars, modelVars, indexVars, adapterVars,
                extraVars>>
OnlyModel ==
    UNCHANGED <<clock, historyVars, sessionVars, storeVars, indexVars, adapterVars,
                extraVars>>
OnlyIndex ==
    UNCHANGED <<clock, historyVars, sessionVars, storeVars, modelVars, adapterVars,
                extraVars>>
OnlyAdapter ==
    UNCHANGED <<clock, historyVars, sessionVars, storeVars, modelVars, indexVars,
                extraVars>>

----------------------------------------------------------------------------
(* SpecHistory: a ZoomHistory driven through its public methods *)

HistoryInit ==
    /\ history \in {ZoomHistoryNew} \cup {WithMaxSize(m) : m \in 0..MaxSize}
    /\ h_call = NoCall
    /\ h_pre = [history |-> history, undo_pending |-> FALSE]
    /\ recorded = <<>>
    /\ undo_called = FALSE
    /\ undo_pending = FALSE

HRecord(e) ==
    /\ OnlyHistory
    /\ Len(recorded) < MaxRecords
    /\ history' = Record(history, e)
    /\ h_call' = [op |-> "record", arg |-> e]
    /\ h_pre' = [history |-> history, undo_pending |-> undo_pending]
    /\ recorded' = Append(recorded, e)
    /\ undo_pending' = FALSE
    /\ UNCHANGED undo_called

HUndo ==
    /\ OnlyHistory
    /\ history' = Undo(history).h
    /\ h_call' = [op |-> "undo", ret |-> Undo(history).ret]
    /\ h_pre' = [history |-> history, undo_pending |-> undo_pending]
    /\ undo_called' = TRUE
    /\ undo_pending' = TRUE
    /\ UNCHANGED recorded

HRedo ==
    /\ OnlyHistory
    /\ history' = Redo(history).h
    /\ h_call' = [op |-> "redo", ret |-> Redo(history).ret]
    /\ h_pre' = [history |-> history, undo_pending |-> undo_pending]
    /\ UNCHANGED <<recorded, undo_called, undo_pending>>

HClear ==
    /\ OnlyHistory
    /\ history' = Clear(history)
    /\ h_call' = [op |-> "clear"]
    /\ h_pre' = [history |-> history, undo_pending |-> undo_pending]
    /\ recorded' = <<>>
    /\ undo_called' = FALSE
    /\ undo_pending' = FALSE

----------------------------------------------------------------------------
(* The clock read by SystemTime::now() advances on its own *)

Tick ==
    /\ clock < MaxClock
    /\ clock' = clock + 1
    /\ UNCHANGED <<historyVars, sessionVars, storeVars, modelVars, indexVars,
                   adapterVars, extraVars>>

----------------------------------------------------------------------------
(* SpecSession: a ZoomSession driven through add_zoom / remove_zoom and     *)
(* through its public history field                                         *)

SessionNames == {"s1", "s2"}

NoTally ==
    [adds |-> 0, removes |-> 0, undone |-> FALSE,
     live |-> [t \in Targets |-> None]]

SessionIdle ==
    /\ session = ZoomSessionNew("s1", 0)
    /\ s_call = NoCall
    /\ s_pre = ZoomSessionNew("s1", 0)
    /\ s_calls = 0
    /\ s_tally = NoTally

SessionInit ==
    /\ clock \in 0..MaxClock
    /\ session = ZoomSessionNew("s1", clock)
    /\ s_call = NoCall
    /\ s_pre = session
    /\ s_calls = 0
    /\ s_tally = NoTally

SAddZoom(t, d) ==
    /\ OnlySession
    /\ s_calls < MaxSessionCalls
    /\ s_calls' = s_calls + 1
    /\ session' = AddZoom(session, t, d, clock)
    /\ s_call' = [op |-> "add_zoom", target |-> t, depth |-> d]
    /\ s_pre' = session
    /\ s_tally' = [s_tally EXCEPT !.adds = s_tally.adds + 1,
                                  !.live[t] = Some(d)]

SRemoveZoom(t) ==
    /\ OnlySession
    /\ s_calls < MaxSessionCalls
    /\ s_calls' = s_calls + 1
    /\ session' = RemoveZoom(session, t, clock).s
    /\ s_call' = [op |-> "remove_zoom", target |-> t,
                  ret |-> RemoveZoom(session, t, clock).ret]
    /\ s_pre' = session
    /\ s_tally' = IF RemoveZoom(session, t, clock).ret
                  THEN [s_tally EXCEPT !.removes = s_tally.removes + 1,
                                       !.live[t] = None]
                  ELSE s_tally

SHistoryUndo ==
    /\ OnlySession
    /\ s_calls < MaxSessionCalls
    /\ s_calls' = s_calls + 1
    /\ session' = [session EXCEPT !.history = Undo(session.history).h]
    /\ s_call' = [op |-> "history.undo", ret |-> Undo(session.history).ret]
    /\ s_pre' = session
    /\ s_tally' = [s_tally EXCEPT
                      !.undone = s_tally.undone \/ Undo(session.history).ret.some]

SHistoryRedo ==
    /\ OnlySession
    /\ s_calls < MaxSessionCalls
    /\ s_calls' = s_calls + 1
    /\ session' = [session EXCEPT !.history = Redo(session.history).h]
    /\ s_call' = [op |-> "history.redo", ret |-> Redo(session.history).ret]
    /\ s_pre' = session
    /\ UNCHANGED s_tally

----------------------------------------------------------------------------
(* SpecStore: a ZoomSessionStore and the sessions it holds *)

Store == [sessions |-> sessions, active_session |-> active_session]

StoreIdle ==
    /\ sessions = EmptyMap
    /\ active_session = None
    /\ st_call = NoCall
    /\ st_pre = ZoomSessionStoreNew
    /\ st_calls = 0

StoreInit ==
    /\ clock \in 0..MaxClock
    /\ sessions = ZoomSessionStoreNew.sessions
    /\ active_session = ZoomSessionStoreNew.active_session
    /\ st_call = NoCall
    /\ st_pre = ZoomSessionStoreNew
    /\ st_calls = 0

StCreateSession(name) ==
    /\ OnlyStore
    /\ st_calls < MaxStoreCalls
    /\ st_calls' = st_calls + 1
    /\ sessions' = CreateSession(Store, name, clock).sessions
    /\ active_session' = CreateSession(Store, name, clock).active_session
    /\ st_call' = [op |-> "create_session", name |-> name]
    /\ st_pre' = Store

StSetActive(name) ==
    /\ OnlyStore
    /\ st_calls < MaxStoreCalls
    /\ st_calls' = st_calls + 1
    /\ sessions' = SetActive(Store, name).st.sessions
    /\ active_session' = SetActive(Store, name).st.active_session
    /\ st_call' = [op |-> "set_active", name |-> name,
                   ret |-> SetActive(Store, name).ret]
    /\ st_pre' = Store

StDeleteSession(name) ==
    /\ OnlyStore
    /\ st_calls < MaxStoreCalls
    /\ st_calls' = st_calls + 1
    /\ sessions' = DeleteSession(Store, name).st.sessions
    /\ active_session' = DeleteSession(Store, name).st.active_session
    /\ st_call' = [op |-> "delete_session", name |-> name,
                   ret |-> DeleteSession(Store, name).ret]
    /\ st_pre' = Store

\* store.active_mut().map(|s| s.add_zoom(t, d)): the caller's use of active_mut
StActiveAddZoom(t, d) ==
    /\ OnlyStore
    /\ st_calls < MaxStoreCalls
    /\ st_calls' = st_calls + 1
    /\ Active(Store).some
    /\ sessions' = [sessions EXCEPT ![active_session.val] =
                        AddZoom(sessions[active_session.val], t, d, clock)]
    /\ st_call' = [op |-> "active_mut.add_zoom", target |-> t, depth |-> d]
    /\ st_pre' = Store
    /\ UNCHANGED active_session

----------------------------------------------------------------------------
(* SpecModel: two PlanetariumModels filled from the same pairs in          *)
(* independent insertion orders                                            *)

Roots == {"/p", "/q"}
FileLanguages == {"Rust", "Python"}

ModelIdle ==
    /\ pairs = [p \in Paths |-> "Rust"]
    /\ modelA = PlanetariumModelNew("/p")
    /\ modelB = PlanetariumModelNew("/p")
    /\ orderA = <<>>
    /\ orderB = <<>>

ModelInit ==
    /\ pairs \in [Paths -> FileLanguages]
    /\ modelA \in {PlanetariumModelNew(r) : r \in Roots}
    /\ modelB \in {PlanetariumModelNew(r) : r \in Roots}
    /\ orderA = <<>>
    /\ orderB = <<>>

InsertA(p) ==
    /\ OnlyModel
    /\ Len(orderA) < MaxInserts
    /\ modelA' = [modelA EXCEPT
                    !.files = BTreeInsert(modelA.files, p, FileNew(p, pairs[p]))]
    /\ orderA' = Append(orderA, p)
    /\ UNCHANGED <<pairs, modelB, orderB>>

InsertB(p) ==
    /\ OnlyModel
    /\ Len(orderB) < MaxInserts
    /\ modelB' = [modelB EXCEPT
                    !.files = BTreeInsert(modelB.files, p, FileNew(p, pairs[p]))]
    /\ orderB' = Append(orderB, p)
    /\ UNCHANGED <<pairs, modelA, orderA>>

----------------------------------------------------------------------------
(* SpecIndex: one index_project run over an enumerated file list *)

RECURSIVE FileLists(_)
FileLists(n) ==
    IF n = 0 THEN {<<>>}
    ELSE LET shorter == FileLists(n - 1)
         IN  shorter \cup
             { Append(l, [path |-> p, language |-> "Rust", outcome |-> o]) :
                 l \in {x \in shorter : Len(x) = n - 1},
                 p \in Paths, o \in {"ok", "fail"} }

DistinctPaths(l) == \A i, j \in 1..Len(l) : l[i].path = l[j].path => i = j

IndexIdle ==
    /\ idx_input = <<>>
    /\ idx_next = 1
    /\ model = PlanetariumModelNew("/p")
    /\ idx_result = None

IndexInit ==
    /\ idx_input \in {l \in FileLists(MaxFiles) : DistinctPaths(l)}
    /\ idx_next = 1
    /\ model = PlanetariumModelNew("/p")
    /\ idx_result = None

IndexFile ==
    /\ OnlyIndex
    /\ ~idx_result.some
    /\ idx_next <= Len(idx_input)
    /\ \E recoverable \in BOOLEAN :
        LET r == IndexOne(model, idx_input[idx_next], recoverable)
        IN  /\ model' = r.model
            /\ IF r.aborted
               THEN /\ idx_result' = Some(SyntaxErr("aborted"))
                    /\ UNCHANGED idx_next
               ELSE /\ idx_next' = idx_next + 1
                    /\ UNCHANGED idx_result
    /\ UNCHANGED idx_input

IndexReturn ==
    /\ OnlyIndex
    /\ ~idx_result.some
    /\ idx_next > Len(idx_input)
    /\ idx_result' = Some(SyntaxOk(model))
    /\ UNCHANGED <<idx_input, idx_next, model>>

----------------------------------------------------------------------------
(* SpecAdapter: parse / supports / stats calls on one TreeSitterAdapter *)

Adapter == [stats |-> stats, parsers |-> parsers]

AdapterIdle ==
    /\ stats = ProviderStatsDefault
    /\ parsers = {}
    /\ p_call = NoCall

AdapterInit == AdapterIdle

Parse(l, set_ok, tree, nsyms) ==
    /\ OnlyAdapter
    /\ stats.files_parsed < MaxParses
    /\ stats' = AdapterParse(Adapter, l, set_ok, tree, nsyms).st.stats
    /\ parsers' = AdapterParse(Adapter, l, set_ok, tree, nsyms).st.parsers
    /\ p_call' = [op |-> "parse", language |-> l, set_ok |-> set_ok,
                  tree |-> tree,
                  ret |-> AdapterParse(Adapter, l, set_ok, tree, nsyms).ret]

SupportsCall(l) ==
    /\ OnlyAdapter
    /\ p_call' = [op |-> "supports", language |-> l, ret |-> Supports(l)]
    /\ UNCHANGED <<stats, parsers>>

StatsCall ==
    /\ OnlyAdapter
    /\ p_call' = [op |-> "stats", ret |-> stats]
    /\ UNCHANGED <<stats, parsers>>

----------------------------------------------------------------------------
(* SpecLang: calls on the extension tables of LanguageId and Language *)

coreVars ==
    <<clock, historyVars, sessionVars, storeVars, modelVars, indexVars,
      adapterVars>>

CoreIdle ==
    /\ clock = 0
    /\ HistoryIdle /\ SessionIdle /\ StoreIdle /\ ModelIdle /\ IndexIdle
    /\ AdapterIdle

LangIdle == l_call = NoCall

OnlyLang == UNCHANGED <<coreVars, z_call, blockVars, searchVars,
                      extractVars, threadVars, lateVars>>

IdFromExtension(ext) ==
    /\ OnlyLang
    /\ l_call' = [op |-> "LanguageId::from_extension", ext |-> ext,
                  ret |-> LanguageId_from_extension(ext)]

\* let ext = l.extension(); LanguageId::from_extension(ext)
IdRoundTrip(l) ==
    /\ OnlyLang
    /\ l_call' = [op |-> "LanguageId::roundtrip", language |-> l,
                  ext |-> LanguageId_extension(l),
                  ret |-> LanguageId_from_extension(LanguageId_extension(l))]

LangFromExtension(ext) ==
    /\ OnlyLang
    /\ l_call' = [op |-> "Language::from_extension", ext |-> ext,
                  ret |-> Language_from_extension(ext)]

\* let ext = lang.extension(); Language::from_extension(ext)
LangRoundTrip(l) ==
    /\ OnlyLang
    /\ l_call' = [op |-> "Language::roundtrip", language |-> l,
                  ext |-> Language_extension(l),
                  ret |-> Language_from_extension(Language_extension(l))]

----------------------------------------------------------------------------
(* SpecTarget: ZoomTarget::parse / to_command calls *)

ZoomValues == {<<"a">>, <<"a", ":", "b">>, <<>>}
OptionLines == {None, Some(0), Some(MaxLine)}

ZoomTargets ==
    {Function(v) : v \in ZoomValues} \cup {Class(v) : v \in ZoomValues}
    \cup {Module(v) : v \in ZoomValues}
    \cup {FileTarget(p, s, e) : p \in ZoomValues, s \in OptionLines,
                                e \in OptionLines}

Budgets == {None, Some(0), Some(MaxLine)}

ParseInputs ==
    {TargetStr(t) : t \in ZoomTargets}
    \cup {<<"f", "n", "=", "a">>, <<"s", "t", "r", "u", "c", "t", "=", "a">>, <<"m", "o", "d", "=", "a">>, <<"b", "o", "g", "u", "s", "=", "a">>, <<"f", "u", "n", "c", "t", "i", "o", "n">>, <<"f", "i", "l", "e", "=", "a", ":", "-", "1">>, <<"f", "i", "l", "e", "=", "a", ":", "+", "1", "-", "x">>}

TargetIdle == z_call = NoCall

OnlyTarget == UNCHANGED <<coreVars, l_call, blockVars, searchVars,
                      extractVars, threadVars, lateVars>>

ZParse(s) ==
    /\ OnlyTarget
    /\ z_call' = [op |-> "parse", s |-> s, ret |-> ZoomTargetParse(s)]

ZToCommand(t, b) ==
    /\ OnlyTarget
    /\ z_call' = [op |-> "to_command", target |-> t, budget |-> b,
                  ret |-> ToCommand(t, b)]

\* ZoomTarget::parse(<the zoom argument of t.to_command(b)>)
ZRoundTrip(t, b) ==
    /\ OnlyTarget
    /\ z_call' = [op |-> "roundtrip", target |-> t, budget |-> b,
                  command |-> ToCommand(t, b),
                  ret |-> ZoomTargetParse(ZoomArgument(ToCommand(t, b), b))]

----------------------------------------------------------------------------
(* SpecBlock: find_block_end calls on a file that grows line by line *)

MaxLines == 3           \* lines written one by one
MaxPad == 50            \* further lines appended at once

Line(indent, text) == [indent |-> indent, text |-> text, caps |-> {}]
FillerLine == Line(1, <<"x">>)
BlockLines ==
    {Line(0, <<"x", "{">>), Line(0, <<"}">>), Line(1, <<"{", "}">>),
     FillerLine, Line(0, <<>>), Line(0, <<"#">>), Line(0, <<"@">>)}
BlockExts == {"rs", "py", "txt"}

\* content.lines() of the file
FileLines == b_lines \o [i \in 1..b_pad |-> FillerLine]

BlockIdle ==
    /\ b_lines = <<>>
    /\ b_pad = 0
    /\ b_call = NoCall

OnlyBlock == UNCHANGED <<coreVars, l_call, z_call, searchVars, extractVars,
                      threadVars, lateVars>>

AppendLine(l) ==
    /\ OnlyBlock
    /\ Len(b_lines) < MaxLines
    /\ b_pad = 0
    /\ b_lines' = Append(b_lines, l)
    /\ b_call' = NoCall
    /\ UNCHANGED b_pad

PadFile ==
    /\ OnlyBlock
    /\ b_lines # <<>>
    /\ b_pad = 0
    /\ b_pad' = MaxPad
    /\ b_call' = NoCall
    /\ UNCHANGED b_lines

\* find_block_end(&lines, start_idx, ext) for a line of the file
BlockEnd(start_idx, ext) ==
    /\ OnlyBlock
    /\ start_idx < Len(b_lines)
    /\ b_call' = [op |-> "find_block_end", lines |-> FileLines,
                  start_idx |-> start_idx, ext |-> ext,
                  ret |-> FindBlockEnd(FileLines, start_idx, ext)]
    /\ UNCHANGED <<b_lines, b_pad>>

----------------------------------------------------------------------------
(* SpecSearch: find_all / find_symbol calls on a tree of files *)

MaxEntries == 2         \* files under root

DeclLine(text, pattern, name) ==
    [indent |-> 0, text |-> text,
     caps |-> {[pattern |-> pattern, name |-> name]}]
SourceFile(path, ext, ls) == [path |-> path, ext |-> ext, lines |-> ls]

SearchFiles ==
    {SourceFile("a.rs", Some("rs"),
                <<DeclLine(<<"a", "{">>, "RUST_FN", "a"), Line(0, <<"}">>)>>),
     SourceFile("b.rs", Some("rs"),
                <<DeclLine(<<"b", "{">>, "RUST_FN", "b"), Line(0, <<"}">>),
                  DeclLine(<<"a", "{", "}">>, "RUST_FN", "a")>>),
     SourceFile("c.py", Some("py"),
                <<DeclLine(<<"a">>, "PYTHON_DEF", "a"), FillerLine>>),
     SourceFile("Makefile", None,
                <<DeclLine(<<"a", "{">>, "RUST_FN", "a")>>),
     SourceFile("d.rs", Some("rs"), <<Line(0, <<"x">>)>>),
     SourceFile("e.rs", Some("rs"),
                <<DeclLine(<<"a", "{">>, "RUST_FN", "a"),
                  DeclLine(<<"a", "}">>, "RUST_STRUCT", "a"),
                  DeclLine(<<"a", "{", "}">>, "RUST_FN", "a")>>),
     SourceFile("f.rs", Some("rs"),
                <<DeclLine(<<"a", "{">>, "RUST_FN", "a"),
                  DeclLine(<<"b">>, "RUST_FN", "b")>>)}
SearchNames == {"a", "b"}
SearchTypes == {"Function", "Class", "Module"}

\* DefaultWalker::walk(root): Err when root is no directory
Walked ==
    IF f_root_exists THEN [ok |-> TRUE, val |-> f_tree]
    ELSE [ok |-> FALSE, err |-> "DirectoryNotFound"]

SearchIdle ==
    /\ f_tree = <<>>
    /\ f_root_exists = TRUE
    /\ f_call = NoCall

OnlySearch == UNCHANGED <<coreVars, l_call, z_call, blockVars, extractVars,
                      threadVars, lateVars>>

AddEntry(f) ==
    /\ OnlySearch
    /\ f_root_exists
    /\ Len(f_tree) < MaxEntries
    /\ f_tree' = Append(f_tree, f)
    /\ f_call' = NoCall
    /\ UNCHANGED f_root_exists

RemoveRoot ==
    /\ OnlySearch
    /\ f_root_exists
    /\ f_root_exists' = FALSE
    /\ f_tree' = <<>>
    /\ f_call' = NoCall

SFindAll(name, symbol_type) ==
    /\ OnlySearch
    /\ f_call' = [op |-> "find_all", name |-> name,
                  symbol_type |-> symbol_type,
                  ret |-> FindAll(Walked, name, symbol_type)]
    /\ UNCHANGED <<f_tree, f_root_exists>>

SFindSymbol(name, symbol_type) ==
    /\ OnlySearch
    /\ f_call' = [op |-> "find_symbol", name |-> name,
                  symbol_type |-> symbol_type,
                  ret |-> FindSymbol(Walked, name, symbol_type)]
    /\ UNCHANGED <<f_tree, f_root_exists>>

----------------------------------------------------------------------------
(* SpecExtract: extract_symbols on a syntax tree that grows node by node *)

MaxItems == 2           \* children of the root node

ExtractLanguages == {"Rust", "Python", "JavaScript"}
TopKinds(language) ==
    CASE language = "Rust" ->
            {"function_item", "struct_item", "impl_item", "mod_item"}
      [] language = "Python" -> {"function_definition", "class_definition"}
      [] language = "JavaScript" ->
            {"function_declaration", "class_declaration", "export_statement"}
MemberKinds(language) ==
    CASE language = "Rust" -> {"function_item", "const_item", "mod_item"}
      [] language = "Python" -> {"function_definition", "class_definition"}
      [] language = "JavaScript" ->
            {"method_definition", "field_definition", "class_declaration"}
\* the kinds of node that have a member list
HasMembers ==
    {"impl_item", "mod_item", "class_definition", "class_declaration",
     "export_statement"}
TopNames == <<"t1", "t2", "t3">>

Root(items) == Node("root", None, items)

ExtractIdle ==
    /\ x_language = "Rust"
    /\ x_root = Root(<<>>)
    /\ x_call = NoCall

OnlyExtract == UNCHANGED <<coreVars, l_call, z_call, blockVars, searchVars,
                      threadVars, lateVars>>

\* an empty source of another language
NewSource(language) ==
    /\ OnlyExtract
    /\ x_root = Root(<<>>)
    /\ x_language' = language
    /\ x_call' = NoCall
    /\ UNCHANGED x_root

\* a declaration written at the top level of the source
AddItem(kind) ==
    /\ OnlyExtract
    /\ kind \in TopKinds(x_language)
    /\ Len(x_root.members) < MaxItems
    /\ x_root' = Root(Append(x_root.members,
                             Node(kind,
                                  IF kind = "export_statement" THEN None
                                  ELSE Some(TopNames[Len(x_root.members) + 1]),
                                  <<>>)))
    /\ x_call' = NoCall
    /\ UNCHANGED x_language

\* a declaration written inside the last top-level declaration
AddMember(kind) ==
    /\ OnlyExtract
    /\ kind \in MemberKinds(x_language)
    /\ x_root.members # <<>>
    /\ LET n == Len(x_root.members) IN
       /\ x_root.members[n].kind \in HasMembers
       /\ x_root.members[n].members = <<>>
       /\ x_root' = [x_root EXCEPT !.members[n].members =
                        <<Node(kind, Some("m"), <<>>)>>]
    /\ x_call' = NoCall
    /\ UNCHANGED x_language

\* a declaration written inside the member of the last top-level declaration
AddNested(kind) ==
    /\ OnlyExtract
    /\ kind \in MemberKinds(x_language)
    /\ x_root.members # <<>>
    /\ LET n == Len(x_root.members) IN
       /\ x_root.members[n].members # <<>>
       /\ x_root.members[n].members[1].kind \in HasMembers
       /\ x_root.members[n].members[1].members = <<>>
       /\ x_root' = [x_root EXCEPT !.members[n].members[1].members =
                        <<Node(kind, Some("n"), <<>>)>>]
    /\ x_call' = NoCall
    /\ UNCHANGED x_language

ExtractCall ==
    /\ OnlyExtract
    /\ x_call' = [op |-> "extract_symbols", language |-> x_language,
                  root |-> x_root,
                  ret |-> ExtractSymbols(x_root, x_language)]
    /\ UNCHANGED <<x_language, x_root>>

----------------------------------------------------------------------------
(* SpecThreads: parse calls made concurrently on one TreeSitterAdapter.    *)
(* A call that gets its parser and its tree extracts the symbols, then     *)
(* locks stats, reads and writes the two counters, unlocks and returns.    *)

MaxThreads == 2         \* threads that call parse

Threads == 1..MaxThreads

IdleThread == [pc |-> "idle", nsyms |-> 0, loaded |-> ProviderStatsDefault]

LockAlwaysAvailable(holder) == TRUE

\* self.stats.lock() returns once no other thread holds the guard
LockAvailable(holder) == ~holder.some

\* stats.files_parsed += 1; stats.symbols_extracted += ast.symbols.len()
StatsUpdated(loaded, nsyms) ==
    [loaded EXCEPT !.files_parsed = loaded.files_parsed + 1,
                   !.symbols_extracted = loaded.symbols_extracted + nsyms]

ThreadsIdle ==
    /\ threads = [t \in Threads |-> IdleThread]
    /\ stats_lock = None
    /\ returned = [started |-> 0, ok |-> 0, failed |-> 0, symbols |-> 0,
                   overlapped |-> FALSE]

OnlyThreads ==
    UNCHANGED <<clock, historyVars, sessionVars, storeVars, modelVars,
                indexVars, parsers, p_call, l_call, z_call, blockVars,
                searchVars, extractVars, lateVars>>

\* parse(source, l) up to extract_symbols, or up to its early return
TParse(t, l, set_ok, tree, nsyms) ==
    /\ OnlyThreads
    /\ threads[t].pc = "idle"
    /\ returned.started < MaxParses
    /\ IF GetParser(l, set_ok).ok /\ tree
       THEN /\ threads' = [threads EXCEPT ![t] =
                              [pc |-> "lock", nsyms |-> nsyms,
                               loaded |-> ProviderStatsDefault]]
            /\ returned' = [returned EXCEPT
                  !.started = returned.started + 1,
                  !.overlapped = returned.overlapped
                                 \/ \E u \in Threads : threads[u].pc # "idle"]
       ELSE /\ threads' = threads
            /\ returned' = [returned EXCEPT
                  !.started = returned.started + 1,
                  !.failed = returned.failed + 1]
    /\ UNCHANGED <<stats, stats_lock>>

\* if let Ok(mut stats) = self.stats.lock()
TLock(t) ==
    /\ OnlyThreads
    /\ threads[t].pc = "lock"
    /\ LockAvailable(stats_lock)
    /\ stats_lock' = Some(t)
    /\ threads' = [threads EXCEPT ![t].pc = "load"]
    /\ UNCHANGED <<stats, returned>>

TLoad(t) ==
    /\ OnlyThreads
    /\ threads[t].pc = "load"
    /\ threads' = [threads EXCEPT ![t].pc = "store", ![t].loaded = stats]
    /\ UNCHANGED <<stats, stats_lock, returned>>

TStore(t) ==
    /\ OnlyThreads
    /\ threads[t].pc = "store"
    /\ stats' = StatsUpdated(threads[t].loaded, threads[t].nsyms)
    /\ threads' = [threads EXCEPT ![t].pc = "unlock"]
    /\ UNCHANGED <<stats_lock, returned>>

\* the guard is dropped at the end of the if-let block
TUnlock(t) ==
    /\ OnlyThreads
    /\ threads[t].pc = "unlock"
    /\ stats_lock' = None
    /\ threads' = [threads EXCEPT ![t].pc = "return"]
    /\ UNCHANGED <<stats, returned>>

\* Ok(ast)
TReturn(t) ==
    /\ OnlyThreads
    /\ threads[t].pc = "return"
    /\ threads' = [threads EXCEPT ![t] = IdleThread]
    /\ returned' = [returned EXCEPT
                       !.ok = returned.ok + 1,
                       !.symbols = returned.symbols + threads[t].nsyms]
    /\ UNCHANGED <<stats, stats_lock>>

----------------------------------------------------------------------------
(* walker.rs: read_file_content.  Bytes and characters are one-character   *)
(* strings; "0xFF" is a byte that is not valid UTF-8 and "U+FFFD" the      *)
(* replacement character the lossy conversion puts in its place.           *)

InvalidByte == "0xFF"
Replacement == "U+FFFD"

\* std::str::from_utf8(bytes).is_ok()
IsUtf8(bytes) == \A i \in 1..Len(bytes) : bytes[i] # InvalidByte

\* String::from_utf8_lossy(bytes)
FromUtf8Lossy(bytes) ==
    [i \in 1..Len(bytes) |->
        IF bytes[i] = InvalidByte THEN Replacement ELSE bytes[i]]

\* s.len(): the length of the string in bytes
Utf8Len(s) ==
    Len(s) + 2 * Cardinality({i \in 1..Len(s) : s[i] = Replacement})

\* s.replace("\r\n", "\n"): the non-overlapping matches, left to right
RECURSIVE ReplaceCrLf(_)
ReplaceCrLf(s) ==
    IF Len(s) < 2 THEN s
    ELSE IF s[1] = "\r" /\ s[2] = "\n"
    THEN <<"\n">> \o ReplaceCrLf(Tail(Tail(s)))
    ELSE <<s[1]>> \o ReplaceCrLf(Tail(s))

ReadFileContent(bytes) ==
    IF IsUtf8(bytes) THEN Some(ReplaceCrLf(bytes))
    ELSE IF Cardinality({i \in 1..Len(bytes) : bytes[i] = InvalidByte})
              < Utf8Len(FromUtf8Lossy(bytes)) \div 10
    THEN Some(ReplaceCrLf(FromUtf8Lossy(bytes)))
    ELSE None

----------------------------------------------------------------------------
(* SpecRead: read_file_content on the bytes of a file *)

MaxBytes == 4           \* longest explicit prefix of a file
MaxFill  == 17          \* most plain bytes after the prefix

ByteValues == {"\r", "\n", "a", InvalidByte}

FileBytes == r_bytes \o [i \in 1..r_fill |-> "a"]

ReadIdle ==
    /\ r_bytes = <<>>
    /\ r_fill = 0
    /\ r_call = NoCall

OnlyRead ==
    UNCHANGED <<coreVars, l_call, z_call, blockVars, searchVars, extractVars,
                threadVars, defaultVars, lspVars>>

AppendByte(b) ==
    /\ OnlyRead
    /\ Len(r_bytes) < MaxBytes
    /\ r_fill = 0
    /\ r_bytes' = Append(r_bytes, b)
    /\ r_call' = NoCall
    /\ UNCHANGED r_fill

FillFile ==
    /\ OnlyRead
    /\ r_fill < MaxFill
    /\ r_fill' = r_fill + 1
    /\ r_call' = NoCall
    /\ UNCHANGED r_bytes

ReadCall ==
    /\ OnlyRead
    /\ r_call' = [op |-> "read_file_content", bytes |-> FileBytes,
                  ret |-> ReadFileContent(FileBytes)]
    /\ UNCHANGED <<r_bytes, r_fill>>

----------------------------------------------------------------------------
(* SpecDefault: the same record / undo / redo calls made on a history from *)
(* ZoomHistory::new() and on one from ZoomHistory::default()               *)

DefaultIdle ==
    /\ d_new = ZoomHistoryNew
    /\ d_default = ZoomHistoryDefault
    /\ d_call = NoCall

OnlyDefault ==
    UNCHANGED <<coreVars, l_call, z_call, blockVars, searchVars, extractVars,
                threadVars, readVars, lspVars>>

DRecord(e) ==
    /\ OnlyDefault
    /\ Len(d_new.entries) < MaxRecords
    /\ d_new' = Record(d_new, e)
    /\ d_default' = Record(d_default, e)
    /\ d_call' = [op |-> "record", arg |-> e]

DUndo ==
    /\ OnlyDefault
    /\ d_new' = Undo(d_new).h
    /\ d_default' = Undo(d_default).h
    /\ d_call' = [op |-> "undo", ret_new |-> Undo(d_new).ret,
                  ret_default |-> Undo(d_default).ret]

DRedo ==
    /\ OnlyDefault
    /\ d_new' = Redo(d_new).h
    /\ d_default' = Redo(d_default).h
    /\ d_call' = [op |-> "redo", ret_new |-> Redo(d_new).ret,
                  ret_default |-> Redo(d_default).ret]

----------------------------------------------------------------------------
(* SpecLsp: an LspClient and the server at the other end of its pipes.     *)
(* A message is [kind, id]: a notification carries no id, a response the   *)
(* id of the request it answers, a server-to-client request an id the      *)
(* server chose.                                                           *)

MaxRequests == 2        \* requests the client sends
MaxInFlight == 2        \* messages written by the server and not yet read

Notification == [kind |-> "notification", id |-> None]
ServerRequest(id) == [kind |-> "request", id |-> Some(id)]
Response(id) == [kind |-> "response", id |-> Some(id)]

ServerRequestIds == {1}

\* response.get("id").is_some()
HasId(message) == message.id.some

LspIdle ==
    /\ lsp_next_id = 1
    /\ lsp_stdout = <<>>
    /\ lsp_pending = {}
    /\ lsp_waiting = None
    /\ lsp_call = NoCall

OnlyLsp ==
    UNCHANGED <<coreVars, l_call, z_call, blockVars, searchVars, extractVars,
                threadVars, readVars, defaultVars>>

\* a caller builds a request with id next_id, increments next_id and calls
\* send_request, which writes the frame and starts to read
SendRequest ==
    /\ OnlyLsp
    /\ ~lsp_waiting.some
    /\ lsp_next_id <= MaxRequests
    /\ lsp_next_id' = lsp_next_id + 1
    /\ lsp_pending' = lsp_pending \cup {lsp_next_id}
    /\ lsp_waiting' = Some(lsp_next_id)
    /\ UNCHANGED <<lsp_stdout, lsp_call>>

\* one turn of the loop of read_response: a frame is read; a message with
\* an id is returned, one without is skipped
ReadResponse ==
    /\ OnlyLsp
    /\ lsp_waiting.some
    /\ lsp_stdout # <<>>
    /\ lsp_stdout' = Tail(lsp_stdout)
    /\ IF HasId(Head(lsp_stdout))
       THEN /\ lsp_call' = [op |-> "send_request", id |-> lsp_waiting.val,
                            ret |-> [ok |-> TRUE, val |-> Head(lsp_stdout)]]
            /\ lsp_waiting' = None
       ELSE UNCHANGED <<lsp_call, lsp_waiting>>
    /\ UNCHANGED <<lsp_next_id, lsp_pending>>

\* timeout(.., self.send_request(..)) elapses: the read is abandoned
RequestTimeout ==
    /\ OnlyLsp
    /\ lsp_waiting.some
    /\ lsp_call' = [op |-> "send_request", id |-> lsp_waiting.val,
                    ret |-> [ok |-> FALSE, err |-> "timeout"]]
    /\ lsp_waiting' = None
    /\ UNCHANGED <<lsp_next_id, lsp_stdout, lsp_pending>>

ServerRespond(id) ==
    /\ OnlyLsp
    /\ id \in lsp_pending
    /\ Len(lsp_stdout) < MaxInFlight
    /\ lsp_stdout' = Append(lsp_stdout, Response(id))
    /\ lsp_pending' = lsp_pending \ {id}
    /\ UNCHANGED <<lsp_next_id, lsp_waiting, lsp_call>>

ServerNotify ==
    /\ OnlyLsp
    /\ Len(lsp_stdout) < MaxInFlight
    /\ lsp_stdout' = Append(lsp_stdout, Notification)
    /\ UNCHANGED <<lsp_next_id, lsp_pending, lsp_waiting, lsp_call>>

ServerAsk(id) ==
    /\ OnlyLsp
    /\ Len(lsp_stdout) < MaxInFlight
    /\ lsp_stdout' = Append(lsp_stdout, ServerRequest(id))
    /\ UNCHANGED <<lsp_next_id, lsp_pending, lsp_waiting, lsp_call>>

LateIdle == ReadIdle /\ DefaultIdle /\ LspIdle

ExtraIdle ==
    /\ LangIdle /\ TargetIdle /\ BlockIdle /\ SearchIdle /\ ExtractIdle
    /\ ThreadsIdle /\ LateIdle

----------------------------------------------------------------------------
(* The specifications *)

HistoryNext ==
    \/ \E e \in HistoryInputs : HRecord(e)
    \/ HUndo
    \/ HRedo
    \/ HClear

HistorySpecInit ==
    /\ HistoryInit /\ clock = 0
    /\ SessionIdle /\ StoreIdle /\ ModelIdle /\ IndexIdle /\ AdapterIdle /\ ExtraIdle

SpecHistory == HistorySpecInit /\ [][HistoryNext]_vars

SessionNext ==
    \/ \E t \in Targets, d \in ZoomDepth : SAddZoom(t, d)
    \/ \E t \in Targets : SRemoveZoom(t)
    \/ SHistoryUndo
    \/ SHistoryRedo
    \/ Tick

SessionSpecInit ==
    /\ SessionInit
    /\ HistoryIdle /\ StoreIdle /\ ModelIdle /\ IndexIdle /\ AdapterIdle /\ ExtraIdle

SpecSession == SessionSpecInit /\ [][SessionNext]_vars

StoreNext ==
    \/ \E n \in SessionNames : StCreateSession(n)
    \/ \E n \in SessionNames : StSetActive(n)
    \/ \E n \in SessionNames : StDeleteSession(n)
    \/ \E t \in Targets, d \in ZoomDepth : StActiveAddZoom(t, d)
    \/ Tick

StoreSpecInit ==
    /\ StoreInit
    /\ HistoryIdle /\ SessionIdle /\ ModelIdle /\ IndexIdle /\ AdapterIdle /\ ExtraIdle

SpecStore == StoreSpecInit /\ [][StoreNext]_vars

ModelNext ==
    \/ \E p \in Paths : InsertA(p)
    \/ \E p \in Paths : InsertB(p)

ModelSpecInit ==
    /\ ModelInit /\ clock = 0
    /\ HistoryIdle /\ SessionIdle /\ StoreIdle /\ IndexIdle /\ AdapterIdle /\ ExtraIdle

SpecModel == ModelSpecInit /\ [][ModelNext]_vars

IndexNext ==
    \/ IndexFile
    \/ IndexReturn

IndexSpecInit ==
    /\ IndexInit /\ clock = 0
    /\ HistoryIdle /\ SessionIdle /\ StoreIdle /\ ModelIdle /\ AdapterIdle /\ ExtraIdle

SpecIndex == IndexSpecInit /\ [][IndexNext]_vars

AdapterNext ==
    \/ \E l \in Language, set_ok \in BOOLEAN, tree \in BOOLEAN,
          nsyms \in 0..MaxSymbols : Parse(l, set_ok, tree, nsyms)
    \/ \E l \in Language : SupportsCall(l)
    \/ StatsCall

AdapterSpecInit ==
    /\ AdapterInit /\ clock = 0
    /\ HistoryIdle /\ SessionIdle /\ StoreIdle /\ ModelIdle /\ IndexIdle /\ ExtraIdle

SpecAdapter == AdapterSpecInit /\ [][AdapterNext]_vars

LangNext ==
    \/ \E e \in ExtInputs : IdFromExtension(e)
    \/ \E l \in LanguageId : IdRoundTrip(l)
    \/ \E e \in ExtInputs : LangFromExtension(e)
    \/ \E l \in Language : LangRoundTrip(l)

LangSpecInit == CoreIdle /\ ExtraIdle

SpecLang == LangSpecInit /\ [][LangNext]_vars

TargetNext ==
    \/ \E s \in ParseInputs : ZParse(s)
    \/ \E t \in ZoomTargets, b \in Budgets : ZToCommand(t, b)
    \/ \E t \in ZoomTargets, b \in Budgets : ZRoundTrip(t, b)

TargetSpecInit == CoreIdle /\ ExtraIdle

SpecTarget == TargetSpecInit /\ [][TargetNext]_vars

BlockNext ==
    \/ \E l \in BlockLines : AppendLine(l)
    \/ PadFile
    \/ \E i \in 0..(MaxLines - 1), ext \in BlockExts : BlockEnd(i, ext)

BlockSpecInit == CoreIdle /\ ExtraIdle

SpecBlock == BlockSpecInit /\ [][BlockNext]_vars

SearchNext ==
    \/ \E f \in SearchFiles : AddEntry(f)
    \/ RemoveRoot
    \/ \E n \in SearchNames, t \in SearchTypes : SFindAll(n, t)
    \/ \E n \in SearchNames, t \in SearchTypes : SFindSymbol(n, t)

SearchSpecInit == CoreIdle /\ ExtraIdle

SpecSearch == SearchSpecInit /\ [][SearchNext]_vars

ExtractNext ==
    \/ \E l \in ExtractLanguages : NewSource(l)
    \/ \E k \in TopKinds(x_language) : AddItem(k)
    \/ \E k \in MemberKinds(x_language) : AddMember(k)
    \/ \E k \in MemberKinds(x_language) : AddNested(k)
    \/ ExtractCall

ExtractSpecInit == CoreIdle /\ ExtraIdle

SpecExtract == ExtractSpecInit /\ [][ExtractNext]_vars

ThreadsNext ==
    \/ \E t \in Threads, l \in {"Rust", "Toml"}, set_ok \in BOOLEAN,
          tree \in BOOLEAN, nsyms \in 0..MaxSymbols :
          TParse(t, l, set_ok, tree, nsyms)
    \/ \E t \in Threads : TLock(t)
    \/ \E t \in Threads : TLoad(t)
    \/ \E t \in Threads : TStore(t)
    \/ \E t \in Threads : TUnlock(t)
    \/ \E t \in Threads : TReturn(t)

ThreadsSpecInit == CoreIdle /\ ExtraIdle

SpecThreads == ThreadsSpecInit /\ [][ThreadsNext]_vars

ReadNext ==
    \/ \E b \in ByteValues : AppendByte(b)
    \/ FillFile
    \/ ReadCall

ReadSpecInit == CoreIdle /\ ExtraIdle

SpecRead == ReadSpecInit /\ [][ReadNext]_vars

DefaultNext ==
    \/ \E e \in HistoryInputs : DRecord(e)
    \/ DUndo
    \/ DRedo

DefaultSpecInit == CoreIdle /\ ExtraIdle

SpecDefault == DefaultSpecInit /\ [][DefaultNext]_vars

LspNext ==
    \/ SendRequest
    \/ ReadResponse
    \/ RequestTimeout
    \/ \E id \in 1..MaxRequests : ServerRespond(id)
    \/ ServerNotify
    \/ \E id \in ServerRequestIds : ServerAsk(id)

LspSpecInit == CoreIdle /\ ExtraIdle

SpecLsp == LspSpecInit /\ [][LspNext]_vars

----------------------------------------------------------------------------
(* Properties of ZoomHistory (SpecHistory) *)

\* a is a suffix of b
IsSuffix(a, b) ==
    /\ Len(a) <= Len(b)
    /\ a = SubSeq(b, Len(b) - Len(a) + 1, Len(b))

\* C1: with max_size M >= 1, after N > M record() calls and no undo(), the
\* history holds exactly the last M recorded entries, in recording order, and
\* position = M.
C1_KeepsLastMaxSize ==
    (/\ ~undo_called
     /\ history.max_size >= 1
     /\ Len(recorded) > history.max_size)
    => /\ Len(history.entries) = history.max_size
       /\ history.entries = SubSeq(recorded,
                                   Len(recorded) - history.max_size + 1,
                                   Len(recorded))
       /\ history.position = history.max_size

C1_Witness ==
    /\ h_call.op = "record"
    /\ ~undo_called
    /\ history.max_size >= 1
    /\ Len(recorded) > history.max_size + 1

\* what C2 says of a record(e) call: no entry at or after the cursor survives
\* (what precedes e are entries that preceded the cursor), e is the last
\* entry, position is the new length, redo is unavailable
RecordBranched ==
    LET es == history.entries
        before == SubSeq(h_pre.history.entries, 1, h_pre.history.position)
    IN  /\ Len(es) >= 1
        /\ es[Len(es)] = h_call.arg
        /\ IsSuffix(SubSeq(es, 1, Len(es) - 1), before)
        /\ (h_pre.history.position < Len(h_pre.history.entries)
                => es = Append(before, h_call.arg))
        /\ history.position = Len(es)
        /\ ~CanRedo(history)
        /\ Redo(history).ret = None

\* C2 as stated: after one or more undo() calls, record(e) discards every
\* entry at or after the cursor, appends e as the last entry, sets position
\* to the new length and leaves can_redo() false, so redo() returns None.
C2_AsStated ==
    (h_call.op = "record" /\ h_pre.undo_pending) => RecordBranched

\* C2 amended: the same, for a history whose max_size is at least 1.
C2_Amended ==
    (h_call.op = "record" /\ h_pre.undo_pending /\ history.max_size >= 1)
        => RecordBranched

C2_Witness ==
    /\ h_call.op = "record"
    /\ h_pre.undo_pending
    /\ history.max_size >= 1
    /\ h_pre.history.position >= 1
    /\ h_pre.history.position < Len(h_pre.history.entries)

\* C5: undo() and redo() never add, remove or reorder entries; undo() steps
\* the cursor back over one entry and returns it when position > 0, redo()
\* steps it forward over one entry and returns it when position < len, each
\* returns None and changes nothing otherwise; redo() right after an undo()
\* returns the same entry and restores the position.
C5_UndoRedoOnlyMoveCursor ==
    /\ h_call.op = "undo" =>
        /\ history.entries = h_pre.history.entries
        /\ history.max_size = h_pre.history.max_size
        /\ IF h_pre.history.position > 0
           THEN /\ history.position = h_pre.history.position - 1
                /\ h_call.ret =
                     Some(h_pre.history.entries[h_pre.history.position])
                /\ Redo(history).ret = h_call.ret
                /\ Redo(history).h = h_pre.history
           ELSE /\ history = h_pre.history
                /\ h_call.ret = None
    /\ h_call.op = "redo" =>
        /\ history.entries = h_pre.history.entries
        /\ history.max_size = h_pre.history.max_size
        /\ IF h_pre.history.position < Len(h_pre.history.entries)
           THEN /\ history.position = h_pre.history.position + 1
                /\ h_call.ret =
                     Some(h_pre.history.entries[h_pre.history.position + 1])
           ELSE /\ history = h_pre.history
                /\ h_call.ret = None

C5_Witness ==
    /\ h_call.op = "undo"
    /\ h_call.ret.some
    /\ history.position >= 1
    /\ Len(history.entries) >= 2

----------------------------------------------------------------------------
(* Properties of ZoomSession (SpecSession) *)

\* C3: add_zoom(T, d) on an already active T overwrites T's depth in place:
\* zoom_count() is unchanged, T keeps its position, the other active entries
\* are untouched, and get_depth(T) = d afterwards.
C3_AddZoomOverwritesInPlace ==
    (s_call.op = "add_zoom" /\ IsZoomed(s_pre, s_call.target)) =>
        /\ ZoomCount(session) = ZoomCount(s_pre)
        /\ PositionOf(session.active_zooms, s_call.target)
             = PositionOf(s_pre.active_zooms, s_call.target)
        /\ \A i \in 1..Len(s_pre.active_zooms) :
             s_pre.active_zooms[i][1] # s_call.target
                => session.active_zooms[i] = s_pre.active_zooms[i]
        /\ GetDepth(session, s_call.target) = Some(s_call.depth)

C3_Witness ==
    /\ s_call.op = "add_zoom"
    /\ s_call.depth = "Full"
    /\ ZoomCount(s_pre) = 2
    /\ PositionOf(s_pre.active_zooms, s_call.target) = 1
    /\ GetDepth(s_pre, s_call.target) = Some("Signature")

\* C4: remove_zoom(T) returns true exactly when T was active before the
\* call; then T is no longer active and one Collapse entry for T, whose
\* previous_depth is the depth T had just before, is appended to the history;
\* when it returns false the session is left unchanged.
C4_RemoveZoomRecordsCollapse ==
    s_call.op = "remove_zoom" =>
        /\ s_call.ret = IsZoomed(s_pre, s_call.target)
        /\ s_call.ret =>
            LET es == session.history.entries
                before == SubSeq(s_pre.history.entries, 1,
                                 s_pre.history.position)
            IN  /\ ~IsZoomed(session, s_call.target)
                /\ ZoomCount(session) = ZoomCount(s_pre) - 1
                /\ Len(es) >= 1
                /\ es[Len(es)].target = s_call.target
                /\ es[Len(es)].direction = "Collapse"
                /\ Some(es[Len(es)].previous_depth)
                     = GetDepth(s_pre, s_call.target)
                /\ IsSuffix(SubSeq(es, 1, Len(es) - 1), before)
                /\ Len(es) >= Len(before)
                /\ session.history.position = Len(es)
        /\ ~s_call.ret => session = s_pre

C4_Witness ==
    /\ s_call.op = "remove_zoom"
    /\ s_call.ret
    /\ GetDepth(s_pre, s_call.target) = Some("Full")
    /\ ZoomCount(s_pre) = 2

----------------------------------------------------------------------------
(* Properties of ZoomSessionStore (SpecStore) *)

\* C10: right after create_session(name), active() returns the session with
\* that name, whatever session was active before.
C10_CreatedSessionIsActive ==
    st_call.op = "create_session" =>
        /\ Active(Store).some
        /\ Active(Store).val.name = st_call.name

C10_Witness ==
    /\ st_call.op = "create_session"
    /\ st_pre.active_session.some
    /\ st_pre.active_session.val # st_call.name
    /\ st_call.name \in DOMAIN st_pre.sessions

\* C11: delete_session(name) clears the active pointer exactly when name was
\* the active session and never promotes another session: active() is then
\* None even if other sessions remain; deleting a non-active or unknown
\* session leaves the pointer unchanged.
C11_DeleteClearsOnlyActive ==
    st_call.op = "delete_session" =>
        IF st_pre.active_session = Some(st_call.name)
        THEN /\ active_session = None
             /\ Active(Store) = None
        ELSE active_session = st_pre.active_session

C11_Witness ==
    /\ st_call.op = "delete_session"
    /\ st_call.ret
    /\ st_pre.active_session = Some(st_call.name)
    /\ DOMAIN sessions # {}

----------------------------------------------------------------------------
(* Properties of PlanetariumModel (SpecModel) *)

IsAscending(files) ==
    \A i \in 1..(Len(files) - 1) : StrLess(files[i][1], files[i + 1][1])

PairSet(files) == {files[i] : i \in 1..Len(files)}

\* C7: files is iterated and serialized in ascending key order whatever the
\* insertion order: two models with the same root and the same set of
\* (path, File) pairs serialize to the same output.
C7_SerializationIgnoresInsertionOrder ==
    /\ IsAscending(modelA.files)
    /\ IsAscending(modelB.files)
    /\ (/\ modelA.root = modelB.root
        /\ PairSet(modelA.files) = PairSet(modelB.files))
       => Serialize(modelA) = Serialize(modelB)

C7_Witness ==
    /\ modelA.root = modelB.root
    /\ PairSet(modelA.files) = PairSet(modelB.files)
    /\ Len(modelA.files) = 3
    /\ orderA # orderB
    /\ StrLess(orderA[2], orderA[1])

----------------------------------------------------------------------------
(* Properties of index_project (SpecIndex) *)

OkPaths ==
    {idx_input[i].path : i \in {j \in 1..Len(idx_input) : idx_input[j].outcome = "ok"}}

FailPaths ==
    {idx_input[i].path : i \in {j \in 1..Len(idx_input) : idx_input[j].outcome = "fail"}}

\* C6: index_project never aborts because of a single file: it returns a
\* PlanetariumModel whose files hold every file that parsed and whose errors
\* hold one IndexError with the path of each failing file; the files after a
\* failing one are still processed.
C6_OneBadFileNeverAborts ==
    idx_result.some =>
        /\ idx_result.val.ok
        /\ LET m == idx_result.val.val
           IN  /\ OkPaths \subseteq Keys(m.files)
               /\ \A p \in FailPaths :
                    Cardinality({i \in 1..Len(m.errors) : m.errors[i].path = p}) = 1
               /\ Len(m.errors) = Cardinality(FailPaths)

C6_Witness ==
    /\ idx_result.some
    /\ \E i, j \in 1..Len(idx_input) :
        /\ i < j
        /\ idx_input[i].outcome = "fail"
        /\ idx_input[j].outcome = "ok"
        /\ idx_input[j].path \in Keys(model.files)

----------------------------------------------------------------------------
(* Properties of TreeSitterAdapter::parse (SpecAdapter) *)

IsUnsupported(ret) == ~ret.ok /\ ret.err.variant = "UnsupportedLanguage"

\* C8: parse(source, L) fails with UnsupportedLanguage exactly when no
\* grammar is registered for L: never for a language with supports(L), always
\* for any other language.
C8_UnsupportedIffNotSupported ==
    p_call.op = "parse" =>
        (IsUnsupported(p_call.ret) <=> ~Supports(p_call.language))

\* C9: on a hard parse failure (the grammar parser produces no tree) parse
\* returns a ParseError carrying the partial File, so has_partial() is true
\* and take_partial() yields that File.
C9_HardFailureCarriesPartial ==
    (/\ p_call.op = "parse"
     /\ GetParser(p_call.language, p_call.set_ok).ok
     /\ ~p_call.tree)
    => /\ ~p_call.ret.ok
       /\ HasPartial(p_call.ret.err)
       /\ TakePartial(p_call.ret.err).some


----------------------------------------------------------------------------
(* Properties of the extension tables (SpecLang) *)

\* C12: for every language identifier L, every LanguageId variant (Unknown
\* included) and every Language variant of the syntax module,
\* from_extension(L.extension()) returns L (as Some(L) for Language, whose
\* from_extension returns an Option).
C12_ExtensionRoundTrip ==
    /\ l_call.op = "LanguageId::roundtrip" => l_call.ret = l_call.language
    /\ l_call.op = "Language::roundtrip" => l_call.ret = Some(l_call.language)
    /\ \A l \in LanguageId :
          LanguageId_from_extension(LanguageId_extension(l)) = l
    /\ \A l \in Language :
          Language_from_extension(Language_extension(l)) = Some(l)

C12_Witness ==
    /\ l_call.op = "LanguageId::roundtrip"
    /\ l_call.language = "Unknown"
    /\ l_call.ext = ""
    /\ l_call.ret = "Unknown"


----------------------------------------------------------------------------
(* Properties of ZoomTarget (SpecTarget) *)

\* C13: a ZoomTarget round-trips through its command string: for every
\* ZoomTarget t and every budget b, ZoomTarget::parse applied to the
\* <type>=<value> part of t.to_command(b) yields a target equal to t.
C13_TargetRoundTrip ==
    z_call.op = "roundtrip" => z_call.ret = ZoomOk(z_call.target)


----------------------------------------------------------------------------
(* Properties of SymbolResolver (SpecSearch, SpecBlock) *)

\* C14: find_symbol returns the first match in scan order: it returns Ok
\* with the first element of find_all(name, kind, root) whenever find_all is
\* non-empty, and otherwise an error value that describes the failure (the
\* not-found message when the walk of root succeeded); it always returns a
\* value.
C14_FindSymbolIsFirstOfFindAll ==
    f_call.op = "find_symbol" =>
        LET all == FindAll(Walked, f_call.name, f_call.symbol_type) IN
        /\ f_call.ret.ok \in BOOLEAN
        /\ all # <<>> => f_call.ret = SearchOk(all[1])
        /\ all = <<>> =>
              /\ ~f_call.ret.ok
              /\ f_call.ret.err # <<>>
              /\ f_root_exists =>
                    f_call.ret = NotFound(f_call.symbol_type, f_call.name)

C14_Witness ==
    /\ f_call.op = "find_symbol"
    /\ f_call.ret.ok
    /\ Len(FindAll(Walked, f_call.name, f_call.symbol_type)) > 1
    /\ f_call.ret.val.path # f_tree[1].path

\* The braces of the file from the match line on, as <<line, column>>
\* positions (the balance changes nowhere else), and the number of braces
\* of one kind up to a position
BracePositions(c) ==
    UNION {{<<i, j>> : j \in {k \in 1..Len(c.lines[i].text) :
                                 c.lines[i].text[k] \in {"{", "}"}}} :
              i \in (c.start_idx + 1)..Len(c.lines)}
NotAfter(p, q) == p[1] < q[1] \/ (p[1] = q[1] /\ p[2] <= q[2])
CharAt(c, p) == c.lines[p[1]].text[p[2]]
CountUpTo(c, q, ch) ==
    Cardinality({p \in BracePositions(c) : NotAfter(p, q) /\ CharAt(c, p) = ch})
\* positions where the balance is zero and an opening brace has been seen
ZeroPoints(c) ==
    {q \in BracePositions(c) :
        /\ CountUpTo(c, q, "{") > 0
        /\ CountUpTo(c, q, "{") = CountUpTo(c, q, "}")}
FirstZeroPoint(c) ==
    CHOOSE q \in ZeroPoints(c) : \A p \in ZeroPoints(c) : NotAfter(q, p)

\* C15: for brace-delimited languages find_block_end returns the 1-indexed
\* number of the line on which the '{'/'}' balance, counted from the start
\* of the match line, first returns to zero after an opening brace has been
\* seen, nested braces included.
C15_BraceBalanceEnd ==
    (b_call.op = "find_block_end" /\ b_call.ext \in BraceExts
     /\ ZeroPoints(b_call) # {})
        => b_call.ret = FirstZeroPoint(b_call)[1]

\* the closing braces after which the balance is zero
ClosingZeroPoints(c) == {q \in ZeroPoints(c) : CharAt(c, q) = "}"}

\* C15 (amended): for brace-delimited languages find_block_end returns the
\* 1-indexed number of the line of the first closing brace after which the
\* '{'/'}' balance, counted from the start of the match line, is zero,
\* nested braces included.
C15_Amended ==
    (b_call.op = "find_block_end" /\ b_call.ext \in BraceExts
     /\ ClosingZeroPoints(b_call) # {})
        => /\ \E q \in ClosingZeroPoints(b_call) : q[1] = b_call.ret
           /\ \A q \in ClosingZeroPoints(b_call) : b_call.ret <= q[1]

C15_Witness ==
    /\ b_call.op = "find_block_end"
    /\ b_call.ext = "rs"
    /\ b_call.start_idx = 0
    /\ Len(b_call.lines) >= 3
    /\ b_call.lines[2].text = <<"{", "}">>
    /\ b_call.ret = 3
    /\ ClosingZeroPoints(b_call) # {}

BlockEnders(c) ==
    {k \in (c.start_idx + 2)..Len(c.lines) :
        /\ c.lines[k].text # <<>>
        /\ c.lines[k].text[1] \notin {"#", "@"}
        /\ c.lines[k].indent <= c.lines[c.start_idx + 1].indent}

\* C17: for indentation-delimited languages (Python) find_block_end returns
\* the line just before the first later line whose indentation is at or
\* below the match line's and that is not blank, a '#' comment or an '@'
\* decorator; if there is no such line it returns the last line of the file.
C17_IndentBlockEnd ==
    (b_call.op = "find_block_end" /\ b_call.ext \in IndentExts) =>
        IF BlockEnders(b_call) = {}
        THEN b_call.ret = Len(b_call.lines)
        ELSE /\ b_call.ret + 1 \in BlockEnders(b_call)
             /\ \A k \in BlockEnders(b_call) : b_call.ret + 1 <= k

C17_Witness ==
    /\ b_call.op = "find_block_end"
    /\ b_call.ext = "py"
    /\ b_call.start_idx = 0
    /\ b_call.ret = 2
    /\ Len(b_call.lines) >= 3
    /\ b_call.lines[2].text = <<"@">>
    /\ 3 \in BlockEnders(b_call)


----------------------------------------------------------------------------
(* Properties of the shallow symbol extraction (SpecExtract) *)

ContainerKinds ==
    {"impl_item", "mod_item", "class_definition", "class_declaration"}
MethodOrFieldKinds ==
    {"function_item", "function_definition", "method_definition",
     "field_definition", "public_field_definition"}

\* the container declarations at the top level of the source (an exported
\* declaration is the child of its export statement)
TopLevelContainers(root) ==
    {root.members[i] : i \in {k \in 1..Len(root.members) :
                                 root.members[k].kind \in ContainerKinds}}
    \cup UNION {{root.members[i].members[j] :
                    j \in {k \in 1..Len(root.members[i].members) :
                              root.members[i].members[k].kind \in ContainerKinds}} :
                i \in {k \in 1..Len(root.members) :
                          root.members[k].kind = "export_statement"}}

Emitted(c) == {c.ret[i] : i \in 1..Len(c.ret)}

\* C18: in the shallow pass every top-level container declaration (class,
\* impl block, module) has its direct member methods and fields emitted as
\* symbols whose parent is the container's name, and no declaration nested
\* more deeply than one level is emitted.
C18_ContainerMembersEmitted ==
    x_call.op = "extract_symbols" =>
        /\ \A c \in TopLevelContainers(x_call.root) :
              \A j \in 1..Len(c.members) :
                 c.members[j].kind \in MethodOrFieldKinds =>
                    \E s \in Emitted(x_call) :
                       /\ s.name = c.members[j].name.val
                       /\ s.parent = c.name
        /\ \A s \in Emitted(x_call) :
              \/ s.parent = None /\ s.name # "n"
              \/ \E c \in TopLevelContainers(x_call.root) :
                    /\ s.parent = c.name
                    /\ \E j \in 1..Len(c.members) :
                          c.members[j].name = Some(s.name)


----------------------------------------------------------------------------
(* Properties of concurrent parse calls (SpecThreads) *)

\* C19: the statistics are updated atomically under their lock: for any
\* interleaving of concurrent parse calls on one adapter, once all calls
\* have returned, stats().files_parsed equals the number of calls that
\* returned Ok and symbols_extracted equals the sum of the symbol counts
\* they returned; a failed parse changes neither counter.
C19_StatsCountReturnedCalls ==
    (\A t \in Threads : threads[t].pc = "idle") =>
        /\ stats.files_parsed = returned.ok
        /\ stats.symbols_extracted = returned.symbols

C19_Witness ==
    /\ \A t \in Threads : threads[t].pc = "idle"
    /\ returned.overlapped
    /\ returned.ok = 2
    /\ returned.symbols = 1
    /\ stats.files_parsed = 2


----------------------------------------------------------------------------
(* Properties of the parser cache (SpecAdapter) *)

\* C20: the adapter fills a per-language parser cache lazily: after a
\* successful parse for language L the parser cache holds a parser
\* instance for L (which a later parse for L reuses).
C20_ParserCachedAfterParse ==
    (p_call.op = "parse" /\ p_call.ret.ok) => p_call.language \in parsers


----------------------------------------------------------------------------
(* Properties of read_file_content (SpecRead) *)

HasCrLf(s) == \E i \in 1..(Len(s) - 1) : s[i] = "\r" /\ s[i + 1] = "\n"

\* C21: the content read_file_content returns is newline-normalized: for
\* every input it accepts the returned text contains no "\r\n" sequence,
\* so normalizing it a second time changes nothing.
C21_ContentNormalized ==
    (r_call.op = "read_file_content" /\ r_call.ret.some) =>
        /\ ~HasCrLf(r_call.ret.val)
        /\ ReplaceCrLf(r_call.ret.val) = r_call.ret.val


----------------------------------------------------------------------------
(* Further properties of ZoomSession (SpecSession) *)

LastEntry(h) == h.entries[Len(h.entries)]

\* C22: while the history holds fewer than max_size entries and no undo
\* has been performed, every add_zoom call (for a new or an already-active
\* target) appends exactly one Expand entry and every remove_zoom call that
\* returns true appends exactly one Collapse entry, so the history length
\* equals the number of add_zoom calls plus the number of successful
\* remove_zoom calls.
C22_HistoryLengthCountsCalls ==
    (~s_tally.undone
     /\ Len(s_pre.history.entries) < s_pre.history.max_size) =>
        /\ Len(session.history.entries) = s_tally.adds + s_tally.removes
        /\ (s_call.op = "add_zoom") =>
              /\ Len(session.history.entries)
                    = Len(s_pre.history.entries) + 1
              /\ SubSeq(session.history.entries, 1,
                        Len(s_pre.history.entries)) = s_pre.history.entries
              /\ LastEntry(session.history).direction = "Expand"
              /\ LastEntry(session.history).target = s_call.target
        /\ (s_call.op = "remove_zoom" /\ s_call.ret) =>
              /\ Len(session.history.entries)
                    = Len(s_pre.history.entries) + 1
              /\ SubSeq(session.history.entries, 1,
                        Len(s_pre.history.entries)) = s_pre.history.entries
              /\ LastEntry(session.history).direction = "Collapse"
              /\ LastEntry(session.history).target = s_call.target
        /\ (s_call.op = "remove_zoom" /\ ~s_call.ret) =>
              session.history = s_pre.history

C22_Witness ==
    /\ ~s_tally.undone
    /\ s_tally.adds = 2
    /\ s_tally.removes = 1
    /\ session.active_zooms = <<>>
    /\ s_call.op = "remove_zoom" /\ ~s_call.ret
    /\ Len(session.history.entries) = 3


\* C23: every history entry's previous_depth is the depth the target had
\* immediately before the action: the Expand entry recorded by
\* add_zoom(T, d) on an already-active target carries the depth T had
\* before it was overwritten, and the Collapse entry recorded by
\* remove_zoom(T) the depth T had before it was removed.
C23_PreviousDepthIsPriorDepth ==
    /\ (s_call.op = "add_zoom" /\ IsZoomed(s_pre, s_call.target)) =>
          Some(LastEntry(session.history).previous_depth)
             = GetDepth(s_pre, s_call.target)
    /\ (s_call.op = "remove_zoom" /\ s_call.ret) =>
          Some(LastEntry(session.history).previous_depth)
             = GetDepth(s_pre, s_call.target)


\* C25: in every state reachable through add_zoom and remove_zoom,
\* active_zooms holds at most one entry per target; is_zoomed(T) holds
\* exactly when the most recent add_zoom(T, _) was not followed by a
\* successful remove_zoom(T), and get_depth(T) is then the depth passed to
\* that add_zoom.
C25_ActiveZoomsTrackCalls ==
    \A t \in Targets :
        /\ Cardinality({i \in 1..Len(session.active_zooms) :
                            session.active_zooms[i][1] = t}) <= 1
        /\ IsZoomed(session, t) = s_tally.live[t].some
        /\ GetDepth(session, t) = s_tally.live[t]

C25_Witness ==
    /\ s_call.op = "add_zoom"
    /\ IsZoomed(s_pre, s_call.target)
    /\ GetDepth(s_pre, s_call.target) # Some(s_call.depth)
    /\ s_tally.removes = 1
    /\ ZoomCount(session) = 1

----------------------------------------------------------------------------
(* Further properties of ZoomHistory (SpecHistory) *)

\* C24: in every state reachable through new/with_max_size, record, undo,
\* redo and clear, a ZoomHistory satisfies
\* 0 <= position <= entries.len() <= max_size, including for max_size = 0.
C24_HistoryBounds ==
    /\ 0 <= history.position
    /\ history.position <= Len(history.entries)
    /\ Len(history.entries) <= history.max_size

C24_Witness ==
    /\ history.max_size = 0
    /\ h_call.op = "record"
    /\ h_pre.history = WithMaxSize(0)
    /\ history.entries = <<>>
    /\ Len(recorded) = 2


----------------------------------------------------------------------------
(* Further properties of ZoomSessionStore (SpecStore) *)

\* C26: in every state reachable through create_session, set_active and
\* delete_session, the store's active pointer is either empty or names a
\* session currently in the store; set_active on an unknown name returns
\* false and leaves the pointer unchanged.
C26_ActivePointerValid ==
    /\ active_session.some => active_session.val \in DOMAIN sessions
    /\ (st_call.op = "set_active"
        /\ st_call.name \notin DOMAIN st_pre.sessions) =>
            /\ ~st_call.ret
            /\ Store = st_pre

C26_Witness ==
    /\ st_call.op = "set_active"
    /\ st_call.name \notin DOMAIN st_pre.sessions
    /\ active_session.some
    /\ st_call.name # active_session.val
    /\ SessionCount(Store) = 1
    /\ st_calls = 4

\* C27: create_session(name) for a name that already exists in the store
\* replaces the stored session with a fresh empty one (no active zooms,
\* empty history) and leaves session_count() unchanged; the previous
\* session's zooms and history are not preserved.
C27_CreateExistingReplaces ==
    (st_call.op = "create_session"
     /\ st_call.name \in DOMAIN st_pre.sessions) =>
        /\ GetSession(Store, st_call.name).some
        /\ sessions[st_call.name].name = st_call.name
        /\ sessions[st_call.name].active_zooms = <<>>
        /\ sessions[st_call.name].history = ZoomHistoryNew
        /\ SessionCount(Store) = SessionCount(st_pre)

C27_Witness ==
    /\ st_call.op = "create_session"
    /\ st_call.name \in DOMAIN st_pre.sessions
    /\ ZoomCount(st_pre.sessions[st_call.name]) = 1
    /\ Len(st_pre.sessions[st_call.name].history.entries) = 2
    /\ SessionCount(Store) = 1


----------------------------------------------------------------------------
(* Properties of ZoomHistory::default() (SpecDefault) *)

\* C28: a ZoomHistory obtained through its Default implementation behaves
\* like one from ZoomHistory::new(): the same sequence of record, undo and
\* redo calls yields the same entries, position, can_undo() and can_redo(),
\* both retaining up to 100 entries.
C28_DefaultBehavesLikeNew ==
    /\ d_default.entries = d_new.entries
    /\ d_default.position = d_new.position
    /\ CanUndo(d_default) = CanUndo(d_new)
    /\ CanRedo(d_default) = CanRedo(d_new)


----------------------------------------------------------------------------
(* Further properties of SymbolResolver (SpecSearch) *)

\* the number of lines of the walked file a location points into
LineCount(path) ==
    Len((CHOOSE f \in SearchFiles : f.path = path).lines)

WellFormedLocation(loc) ==
    /\ 1 <= loc.start_line
    /\ loc.start_line <= loc.end_line
    /\ loc.end_line <= LineCount(loc.path)

\* C29: every SymbolLocation produced by the resolver satisfies
\* start_line <= end_line <= number of lines of the file, for every file
\* content, extension and match line, under the brace, indentation and
\* fallback heuristics alike.
C29_LocationWithinFile ==
    /\ f_call.op = "find_all" =>
          \A i \in 1..Len(f_call.ret) : WellFormedLocation(f_call.ret[i])
    /\ (f_call.op = "find_symbol" /\ f_call.ret.ok) =>
          WellFormedLocation(f_call.ret.val)

C29_Witness ==
    /\ f_call.op = "find_all"
    /\ \E i \in 1..Len(f_call.ret) :
          /\ f_call.ret[i].path = "f.rs"
          /\ f_call.ret[i].end_line = 2
    /\ \E i \in 1..Len(f_call.ret) :
          /\ f_call.ret[i].path = "c.py"
          /\ f_call.ret[i].end_line = LineCount("c.py")


----------------------------------------------------------------------------
(* Properties of LspClient (SpecLsp) *)

\* C30: send_request returns the response to the request it just sent: the
\* message it returns is a response that carries the same id as that
\* request, even when the server interleaves notifications,
\* server-to-client requests, or a late response to an earlier request
\* that timed out.
C30_ResponseMatchesRequest ==
    (lsp_call.op = "send_request" /\ lsp_call.ret.ok) =>
        /\ lsp_call.ret.val.kind = "response"
        /\ lsp_call.ret.val.id = Some(lsp_call.id)

====
